---- MODULE Spec2Model ----
(***************************************************************************)
(* Consolidation (merge) engine of the marketdata repository:              *)
(* scripts/merge-monthly (day -> month) and scripts/merge-yearly           *)
(* (month -> year).  One dataset root (data/KR-1d) is modelled: the files  *)
(* of the root, the two batch entry points, and the job functions          *)
(* merge_and_validate / merge_yearly_and_validate step by step, with the   *)
(* I/O failures their try/except blocks handle.                            *)
(*                                                                         *)
(* A file is named by its path components: <<y, m, d>> is                  *)
(* <root>/y/y-m-d.parquet, <<y, m>> is <root>/y/y-m.parquet and <<y>> is   *)
(* <root>/y/y.parquet.  The tuple order is the lexicographic order of the  *)
(* zero-padded path strings.  A DataFrame is [cols, rows]: the ordered     *)
(* column names and the rows, each row a function from column to value.    *)
(* The value columns of KR-1d (open .. volume) are represented by the one  *)
(* column "close"; symbols and dates are small integers.                   *)
(*                                                                         *)
(* Eleven specifications share the variables:                               *)
(*   Spec      the dataset root under collector deliveries, batch runs of  *)
(*             both tiers, I/O failures and killed processes;              *)
(*   GateSpec  single calls of is_safe_to_merge and is_past_year on the    *)
(*             text of a key (a str is the sequence of its characters);    *)
(*   JobSpec   single calls of the job functions on shard files of any     *)
(*             schema, without failures, the files given in any order;     *)
(*   CatalogSpec    single calls of get_monthly_groups and                 *)
(*             get_yearly_groups on directory listings given as text;      *)
(*   RunSpec   batch runs that no kill stops, on a fixed set of shards,    *)
(*             with the process scheduled until it ends;                   *)
(*   RootsSpec the month tier scripts of KR-1d and KR-1m interleaved on    *)
(*             one file system;                                            *)
(*   ValidatorSpec  single calls of validate_year on raw files and an      *)
(*             archive of the US-5m schema;                                *)
(*   MinuteSpec     single calls of fetch_minute_symbol on parsed pages;   *)
(*   ReaderSpec     single calls of get_files_to_read on the files of a    *)
(*             root and a date range;                                      *)
(*   CollectorSpec  one collection by the worker tasks of collect_day_data *)
(*             or collect_minute_data, under a fair event loop;            *)
(*   ConverterSpec  repeated calls of convert_file on one raw file, the    *)
(*             shard damaged in between.                                   *)
(***************************************************************************)
EXTENDS Integers, Sequences, FiniteSets, TLC

VARIABLES
    disk,       \* the files of the dataset root: name -> stored DataFrame
    today,      \* date.today(), <<y, m, d>>
    run,        \* batch entry point in progress: "none", "month", "year"
    yearsLeft,  \* month tier: year directories main() has not scanned yet
    queue,      \* sorted(groups.items()) not yet iterated: [key, files]
    job,        \* the running merge_and_validate call (locals + position)
    ever,       \* history: every row a delivered shard has held
    arrivals,   \* history: number of shards delivered
    faults,     \* history: number of I/O failures injected and runs killed
    intr,       \* history: the job a kill stopped after it wrote its candidate
    exit_code,  \* exit status of the last batch process: <<>> while none ended
    call        \* a single call of a function: inputs and result; in
                \* RootsSpec the process of each script

vars == <<disk, today, run, yearsLeft, queue, job, ever, arrivals, faults,
          intr, exit_code, call>>

----------------------------------------------------------------------------
(* Bounds *)
MaxArrivals == 2
MaxFaults == 2

(* Program constants *)
days_wait == 5
NaN == -1
sort_columns == <<"symbol", "date">>

----------------------------------------------------------------------------
(* Inputs *)
Cols == <<"symbol", "date", "close">>

Row(s, d, c) == [symbol |-> s, date |-> d, close |-> c]

\* Tables a day shard may hold when a job reads it (the job functions take
\* any frames): unsorted rows, a row that also occurs in another shard, two
\* rows with one SortKey and different values.
ShardContents ==
    { <<Row(1, 2, 10), Row(1, 1, 10)>>,
      <<Row(1, 1, 10), Row(1, 1, 20)>> }

Years == {2020}
DayNames == {<<2020, 1, 1>>, <<2020, 1, 2>>, <<2020, 12, 1>>}

Calendar == {<<2020, 2, 6>>, <<2021, 1, 1>>, <<2021, 1, 6>>}

----------------------------------------------------------------------------
(* Sequences of integers (paths, dates) in lexicographic order *)
RECURSIVE SeqLess(_, _)
SeqLess(a, b) ==
    IF a = <<>> THEN b # <<>>
    ELSE IF b = <<>> THEN FALSE
    ELSE IF Head(a) # Head(b) THEN Head(a) < Head(b)
    ELSE SeqLess(Tail(a), Tail(b))

SeqLE(a, b) == a = b \/ SeqLess(a, b)

\* sorted(files)
RECURSIVE sorted(_)
sorted(S) ==
    IF S = {} THEN <<>>
    ELSE LET lo == CHOOSE x \in S : \A y \in S : SeqLE(x, y)
         IN  <<lo>> \o sorted(S \ {lo})

Range(s) == {s[i] : i \in 1..Len(s)}

----------------------------------------------------------------------------
(* datetime.date arithmetic *)
IsLeap(y) == (y % 4 = 0 /\ y % 100 # 0) \/ y % 400 = 0

DaysInMonth(y, m) ==
    IF m = 2 THEN (IF IsLeap(y) THEN 29 ELSE 28)
    ELSE IF m \in {4, 6, 9, 11} THEN 30 ELSE 31

NextDay(dt) ==
    IF dt[3] < DaysInMonth(dt[1], dt[2]) THEN <<dt[1], dt[2], dt[3] + 1>>
    ELSE IF dt[2] < 12 THEN <<dt[1], dt[2] + 1, 1>>
    ELSE <<dt[1] + 1, 1, 1>>

\* date + timedelta(days=n)
RECURSIVE AddDays(_, _)
AddDays(dt, n) == IF n = 0 THEN dt ELSE AddDays(NextDay(dt), n - 1)

----------------------------------------------------------------------------
(* Python text: a str is the sequence of its characters *)
Digits == <<"0", "1", "2", "3", "4", "5", "6", "7", "8", "9">>

IsDigit(c) == \E v \in 1..10 : Digits[v] = c

DigitValue(c) == (CHOOSE v \in 1..10 : Digits[v] = c) - 1

\* s.split(sep)
RECURSIVE split(_, _)
split(s, sep) ==
    IF \A i \in 1..Len(s) : s[i] # sep THEN <<s>>
    ELSE LET i == CHOOSE k \in 1..Len(s) :
                     s[k] = sep /\ \A j \in 1..(k - 1) : s[j] # sep
         IN  <<SubSeq(s, 1, i - 1)>> \o split(SubSeq(s, i + 1, Len(s)), sep)

\* s.strip(), as int() applies it
RECURSIVE strip(_)
strip(s) ==
    IF s # <<>> /\ Head(s) = " " THEN strip(Tail(s))
    ELSE IF s # <<>> /\ s[Len(s)] = " " THEN strip(SubSeq(s, 1, Len(s) - 1))
    ELSE s

\* the digit part int() accepts: digits, single underscores between digits
ValidBody(b) ==
    /\ b # <<>>
    /\ \A i \in 1..Len(b) :
          \/ IsDigit(b[i])
          \/ /\ b[i] = "_"
             /\ i > 1 /\ i < Len(b)
             /\ IsDigit(b[i - 1]) /\ IsDigit(b[i + 1])

RECURSIVE BodyValue(_)
BodyValue(b) ==
    IF b = <<>> THEN 0
    ELSE LET n     == Len(b)
             front == BodyValue(SubSeq(b, 1, n - 1))
         IN  IF b[n] = "_" THEN front ELSE 10 * front + DigitValue(b[n])

\* int(s): <<value>>, or <<>> when int() raises ValueError
int(s) ==
    LET t      == strip(s)
        signed == t # <<>> /\ Head(t) \in {"+", "-"}
        b      == IF signed THEN Tail(t) ELSE t
    IN  IF ~ValidBody(b) THEN <<>>
        ELSE IF signed /\ Head(t) = "-" THEN <<0 - BodyValue(b)>>
        ELSE <<BodyValue(b)>>

\* n written with at least w digits (the %Y, %m fields of a file name)
RECURSIVE Zfill(_, _)
Zfill(n, w) ==
    IF w <= 1 /\ n < 10 THEN <<Digits[n + 1]>>
    ELSE Append(Zfill(n \div 10, w - 1), Digits[(n % 10) + 1])

----------------------------------------------------------------------------
(* SafetyGate *)
\* date(y, m, d) raises ValueError
date_raises(dt) ==
    ~ ( /\ dt[1] \in 1..9999
        /\ dt[2] \in 1..12
        /\ dt[3] \in 1..DaysInMonth(dt[1], dt[2]) )

\* variant of is_safe_to_merge: the cutoff day itself is not yet eligible
is_safe_to_merge_strict(month_key, wait, now) ==
    LET year  == month_key[1]
        month == month_key[2]
        next_month_start == IF month = 12 THEN <<year + 1, 1, 1>>
                            ELSE <<year, month + 1, 1>>
    IN  IF date_raises(next_month_start) THEN FALSE
        ELSE IF AddDays(next_month_start, wait)[1] > 9999 THEN FALSE
        ELSE SeqLess(AddDays(next_month_start, wait), now)

\* is_safe_to_merge(month_str, days_wait), lines 53-60, on the parsed year
\* and month, with date.today() = now; FALSE when date() or the addition of
\* the timedelta raises.
is_safe_to_merge(month_key, wait, now) ==
    LET year  == month_key[1]
        month == month_key[2]
        next_month_start == IF month = 12 THEN <<year + 1, 1, 1>>
                            ELSE <<year, month + 1, 1>>
    IN  IF date_raises(next_month_start) THEN FALSE
        ELSE IF AddDays(next_month_start, wait)[1] > 9999 THEN FALSE
        ELSE SeqLE(AddDays(next_month_start, wait), now)

\* is_safe_to_merge(month_str, days_wait) on the text of the key: FALSE when
\* the split does not unpack into two parts or int() raises.
is_safe_to_merge_str(month_str, wait, now) ==
    LET parts == split(month_str, "-")
    IN  IF Len(parts) # 2 THEN FALSE
        ELSE IF int(parts[1]) = <<>> \/ int(parts[2]) = <<>> THEN FALSE
        ELSE is_safe_to_merge(<<int(parts[1])[1], int(parts[2])[1]>>,
                              wait, now)

\* variant of is_past_year: the current year counts as past
is_past_year_or_current(year_key, now) == year_key[1] <= now[1]

\* is_past_year(year_str), line 59, on the parsed year, with
\* date.today() = now
is_past_year(year_key, now) == year_key[1] < now[1]

\* is_past_year(year_str) on the text of the key: FALSE when int() raises
is_past_year_str(year_str, now) ==
    IF int(year_str) = <<>> THEN FALSE
    ELSE is_past_year(int(year_str), now)

----------------------------------------------------------------------------
(* ShardCatalog *)
\* get_monthly_groups(data_dir, year): the day files of the year directory,
\* grouped by their YYYY-MM prefix.
get_monthly_groups(d, year) ==
    LET days == {n \in DOMAIN d : Len(n) = 3 /\ n[1] = year}
        keys == {SubSeq(n, 1, 2) : n \in days}
    IN  [k \in keys |-> {n \in days : SubSeq(n, 1, 2) = k}]

\* get_yearly_groups(data_dir): the month files of every year directory,
\* grouped by their YYYY prefix.
get_yearly_groups(d) ==
    LET months == {n \in DOMAIN d : Len(n) = 2}
        keys   == {SubSeq(n, 1, 1) : n \in months}
    IN  [k \in keys |-> {n \in months : SubSeq(n, 1, 1) = k}]

\* variant of items: the groups are taken in descending order of their keys
items_descending(groups) ==
    LET ks == sorted(DOMAIN groups)
        n  == Len(ks)
    IN  [i \in 1..n |-> [key |-> ks[n + 1 - i], files |-> groups[ks[n + 1 - i]]]]

\* sorted(groups.items())
items(groups) ==
    LET ks == sorted(DOMAIN groups)
    IN  [i \in 1..Len(ks) |-> [key |-> ks[i], files |-> groups[ks[i]]]]

\* sorted(data_dir.glob('*')) restricted to the numeric directories
year_dirs(d) == sorted({<<n[1]>> : n \in DOMAIN d})

\* output_file: <target_dir>/<year>/<key>.parquet
output_file(key) == key

----------------------------------------------------------------------------
(* pandas *)
EmptyFrame == [cols |-> <<>>, rows |-> <<>>]

Frame(rows) == [cols |-> Cols, rows |-> rows]

\* columns of a concatenation: union, in order of first appearance
RECURSIVE UnionCols(_, _)
UnionCols(acc, cs) ==
    IF cs = <<>> THEN acc
    ELSE UnionCols(IF Head(cs) \in Range(acc) THEN acc
                   ELSE Append(acc, Head(cs)), Tail(cs))

Reindex(rows, cols) ==
    [i \in 1..Len(rows) |->
        [c \in Range(cols) |->
            IF c \in DOMAIN rows[i] THEN rows[i][c] ELSE NaN]]

\* variant of concat: only the last frame is kept
concat_last(dfs) ==
    IF dfs = <<>> THEN EmptyFrame ELSE dfs[Len(dfs)]

\* pd.concat(dfs, ignore_index=True)
RECURSIVE concat(_)
concat(dfs) ==
    IF dfs = <<>> THEN EmptyFrame
    ELSE LET n     == Len(dfs)
             front == concat(SubSeq(dfs, 1, n - 1))
             cols  == UnionCols(front.cols, dfs[n].cols)
         IN  [cols |-> cols,
              rows |-> Reindex(front.rows, cols) \o Reindex(dfs[n].rows, cols)]

\* variant of DedupRows: only a row equal to the row just before it is dropped
RECURSIVE DedupAdjacent(_)
DedupAdjacent(rows) ==
    IF rows = <<>> THEN <<>>
    ELSE LET n     == Len(rows)
             front == DedupAdjacent(SubSeq(rows, 1, n - 1))
         IN  IF n > 1 /\ rows[n - 1] = rows[n]
             THEN front ELSE Append(front, rows[n])

\* variant of DedupRows: a row is dropped when an earlier row has its SortKey
RECURSIVE DedupBySortKey(_)
DedupBySortKey(rows) ==
    IF rows = <<>> THEN <<>>
    ELSE LET n     == Len(rows)
             front == DedupBySortKey(SubSeq(rows, 1, n - 1))
             by    == {c \in Range(sort_columns) : c \in DOMAIN rows[n]}
         IN  IF \E k \in 1..Len(front) : \A c \in by : front[k][c] = rows[n][c]
             THEN front ELSE Append(front, rows[n])

\* df.drop_duplicates(): the first occurrence of every full row is kept
RECURSIVE DedupRows(_)
DedupRows(rows) ==
    IF rows = <<>> THEN <<>>
    ELSE LET n     == Len(rows)
             front == DedupRows(SubSeq(rows, 1, n - 1))
         IN  IF \E k \in 1..Len(front) : front[k] = rows[n]
             THEN front ELSE Append(front, rows[n])

drop_duplicates(df) == [cols |-> df.cols, rows |-> DedupRows(df.rows)]

\* order of two rows on the columns `by`; NaN sorts last
RECURSIVE KeyLess(_, _, _)
KeyLess(a, b, by) ==
    IF by = <<>> THEN FALSE
    ELSE IF a[Head(by)] # b[Head(by)]
    THEN IF a[Head(by)] = NaN THEN FALSE
         ELSE IF b[Head(by)] = NaN THEN TRUE
         ELSE a[Head(by)] < b[Head(by)]
    ELSE KeyLess(a, b, Tail(by))

\* variant of SortRows: the rows are left in the order they came in
KeepOrder(rows, by) == rows

\* stable ascending sort
RECURSIVE SortRows(_, _)
SortRows(rows, by) ==
    IF rows = <<>> THEN <<>>
    ELSE LET n     == Len(rows)
             front == SortRows(SubSeq(rows, 1, n - 1), by)
             r     == rows[n]
             pos   == Cardinality({k \in 1..Len(front) :
                                      ~KeyLess(r, front[k], by)})
         IN  SubSeq(front, 1, pos) \o <<r>> \o
             SubSeq(front, pos + 1, Len(front))

\* df.sort_values(by).reset_index(drop=True); by = [] returns a copy
sort_values(df, by) == [cols |-> df.cols, rows |-> SortRows(df.rows, by)]

\* sort_values raises KeyError when a column of `by` is absent
SortRaises(df, by) == \E c \in Range(by) : c \notin Range(df.cols)

\* [c for c in sort_columns if c in df.columns]
available_cols(df, by) == SelectSeq(by, LAMBDA c : c \in Range(df.cols))

\* variant of assert_frame_equal: only the shape is compared
assert_frame_equal_shape(left, right) ==
    /\ left.cols = right.cols
    /\ Len(left.rows) = Len(right.rows)

\* pd.testing.assert_frame_equal(left, right) does not raise
assert_frame_equal(left, right) ==
    /\ left.cols = right.cols
    /\ Len(left.rows) = Len(right.rows)
    /\ \A i \in 1..Len(left.rows) : left.rows[i] = right.rows[i]

----------------------------------------------------------------------------
(* Storage *)
\* what a failing or corrupting to_parquet can leave in the file instead of
\* df: a truncated file, a repeated row, a changed cell, a lost column, the
\* rows in another order
Truncated(df) ==
    [cols |-> df.cols, rows |-> SubSeq(df.rows, 1, Len(df.rows) - 1)]

Reversed(df) ==
    [cols |-> df.cols,
     rows |-> [i \in 1..Len(df.rows) |-> df.rows[Len(df.rows) + 1 - i]]]

Corruptions(df) ==
    IF df.rows = <<>> THEN {}
    ELSE LET n    == Len(df.rows)
             last == df.rows[n]
             keep == SelectSeq(df.cols, LAMBDA c : c # "close")
         IN  ( { Truncated(df),
                 [cols |-> df.cols, rows |-> Append(df.rows, last)],
                 Reversed(df) }
               \cup
               ( IF "close" \in Range(df.cols)
                 THEN { [cols |-> df.cols,
                         rows |-> [df.rows EXCEPT
                                     ![n] = [last EXCEPT !["close"] = @ + 1]]],
                        [cols |-> keep,
                         rows |-> [i \in 1..n |->
                                     [c \in Range(keep) |-> df.rows[i][c]]]] }
                 ELSE {} ) ) \ {df}

\* the files of d with f written / removed
WriteFile(d, f, df) ==
    [n \in DOMAIN d \cup {f} |-> IF n = f THEN df ELSE d[n]]

RemoveFile(d, f) == [n \in DOMAIN d \ {f} |-> d[n]]

\* the records held by the files of d
RowsOn(d) == UNION {Range(d[n].rows) : n \in DOMAIN d}

----------------------------------------------------------------------------
(* Consolidator *)
\* lines 75-88 of merge_and_validate / 74-93 of merge_yearly_and_validate:
\* the merge buffer of the frames dfs.  The month tier sorts by
\* sort_columns; the year tier by those of them the data has.
MonthBuffer(dfs) == sort_values(drop_duplicates(concat(dfs)), sort_columns)

YearBuffer(dfs) ==
    LET c == drop_duplicates(concat(dfs))
    IN  sort_values(c, available_cols(c, sort_columns))

Buffer(tier, dfs) == IF tier = "month" THEN MonthBuffer(dfs) ELSE YearBuffer(dfs)

\* the sort of the first half raises (month tier only)
BufferRaises(tier, dfs) ==
    tier = "month" /\ SortRaises(drop_duplicates(concat(dfs)), sort_columns)

\* saved_df re-sorted for the comparison
Resorted(tier, saved) ==
    IF tier = "month" THEN sort_values(saved, sort_columns)
    ELSE sort_values(saved, available_cols(saved, sort_columns))

ResortRaises(tier, saved) == tier = "month" /\ SortRaises(saved, sort_columns)

\* the comparison of lines 100-109 / 104-114 passes
Verified(tier, buf, saved) ==
    /\ ~ResortRaises(tier, saved)
    /\ assert_frame_equal(buf, Resorted(tier, saved))

----------------------------------------------------------------------------
(* State *)
NoJob ==
    [pc |-> "idle", tier |-> "none", key |-> <<>>, files |-> <<>>, i |-> 0,
     buf |-> EmptyFrame, out |-> FALSE, verified |-> FALSE,
     result |-> "none", failedAt |-> "none", rbFailed |-> FALSE,
     nfail |-> 0, pre |-> <<>>]

NoIntr == [pc |-> "none", tier |-> "none", key |-> <<>>, files |-> <<>>,
           i |-> 0, pre |-> <<>>, at |-> <<>>]

NoCall == [fn |-> "none", pc |-> "none", key |-> <<>>, wait |-> 0,
           ret |-> FALSE]

Init ==
    /\ disk = <<>>
    /\ today = <<2020, 2, 6>>
    /\ run = "none"
    /\ yearsLeft = <<>>
    /\ queue = <<>>
    /\ job = NoJob
    /\ ever = {}
    /\ arrivals = 0
    /\ faults = 0
    /\ intr = NoIntr
    /\ exit_code = <<>>
    /\ call = NoCall

Running == job.pc \in {"read", "write", "verify", "cleanup", "except"}

----------------------------------------------------------------------------
(* Environment: the collector and the clock *)
\* a collector run delivers one day shard
Arrive ==
    /\ run = "none"
    /\ arrivals < MaxArrivals
    /\ \E n \in DayNames \ DOMAIN disk, c \in ShardContents :
          /\ SeqLE(n, today)
          /\ disk' = WriteFile(disk, n, Frame(c))
          /\ ever' = ever \cup Range(c)
    /\ arrivals' = arrivals + 1
    /\ intr' = NoIntr
    /\ job' = NoJob
    /\ UNCHANGED <<today, run, yearsLeft, queue, faults>>
    /\ exit_code' = <<>>
    /\ UNCHANGED call

AdvanceDate ==
    /\ run = "none"
    /\ \E dt \in Calendar : SeqLess(today, dt) /\ today' = dt
    /\ intr' = NoIntr
    /\ job' = NoJob
    /\ UNCHANGED <<disk, run, yearsLeft, queue, ever, arrivals, faults>>
    /\ exit_code' = <<>>
    /\ UNCHANGED call

----------------------------------------------------------------------------
(* Orchestrator: main() of merge-monthly/merge_kr1d.py and of              *)
(* merge-yearly/merge_kr1d.py                                              *)
\* month tier: main() starts and lists the year directories
StartMonthRun ==
    /\ run = "none"
    /\ disk # <<>>
    /\ run' = "month"
    /\ yearsLeft' = year_dirs(disk)
    /\ queue' = <<>>
    /\ job' = NoJob
    /\ UNCHANGED <<disk, today, ever, arrivals, faults, intr>>
    /\ exit_code' = <<>>
    /\ UNCHANGED call

\* month tier: the next year directory is scanned and grouped
ScanYear ==
    /\ run = "month"
    /\ ~Running
    /\ queue = <<>>
    /\ yearsLeft # <<>>
    /\ queue' = items(get_monthly_groups(disk, Head(yearsLeft)[1]))
    /\ yearsLeft' = Tail(yearsLeft)
    /\ job' = NoJob
    /\ UNCHANGED <<disk, today, run, ever, arrivals, faults, intr>>
    /\ UNCHANGED <<call, exit_code>>

\* year tier: main() starts; the groups of all years are computed at once
StartYearRun ==
    /\ run = "none"
    /\ disk # <<>>
    /\ run' = "year"
    /\ yearsLeft' = <<>>
    /\ queue' = items(get_yearly_groups(disk))
    /\ job' = NoJob
    /\ UNCHANGED <<disk, today, ever, arrivals, faults, intr>>
    /\ exit_code' = <<>>
    /\ UNCHANGED call

\* the gate of the running tier for a window key
Gate(tier, key, now) ==
    IF tier = "month" THEN is_safe_to_merge(key, days_wait, now)
    ELSE is_past_year(key, now)

\* loop body, gate false: [SKIP]
SkipWindow ==
    /\ run # "none"
    /\ ~Running
    /\ queue # <<>>
    /\ ~Gate(run, Head(queue).key, today)
    /\ queue' = Tail(queue)
    /\ job' = NoJob
    /\ UNCHANGED <<disk, today, run, yearsLeft, ever, arrivals, faults, intr>>
    /\ UNCHANGED <<call, exit_code>>

\* variant of StartJob: the job function is called whatever the gate says
StartJobUngated ==
    /\ run # "none"
    /\ ~Running
    /\ queue # <<>>
    /\ Head(queue).files # {}
    /\ queue' = Tail(queue)
    /\ job' = [NoJob EXCEPT !.pc = "read", !.tier = run,
                            !.key = Head(queue).key,
                            !.files = sorted(Head(queue).files),
                            !.pre = disk]
    /\ UNCHANGED <<disk, today, run, yearsLeft, ever, arrivals, faults, intr>>
    /\ UNCHANGED <<call, exit_code>>

\* loop body, gate true: the job function is called with the group's files
StartJob ==
    /\ run # "none"
    /\ ~Running
    /\ queue # <<>>
    /\ Gate(run, Head(queue).key, today)
    /\ Head(queue).files # {}
    /\ queue' = Tail(queue)
    /\ job' = [NoJob EXCEPT !.pc = "read", !.tier = run,
                            !.key = Head(queue).key,
                            !.files = sorted(Head(queue).files),
                            !.pre = disk]
    /\ UNCHANGED <<disk, today, run, yearsLeft, ever, arrivals, faults, intr>>
    /\ UNCHANGED <<call, exit_code>>

\* variant of EndRun: the exit status tells whether the last job failed
EndRunReportsJob ==
    /\ run # "none"
    /\ ~Running
    /\ queue = <<>>
    /\ yearsLeft = <<>>
    /\ run' = "none"
    /\ intr' = NoIntr
    /\ exit_code' = IF job.result = "False" THEN <<1>> ELSE <<0>>
    /\ UNCHANGED <<disk, today, yearsLeft, queue, job, ever, arrivals, faults>>
    /\ UNCHANGED call

\* main() returns: the process exits with status 0.  job keeps the last
\* call of the job function until the next process starts.
EndRun ==
    /\ run # "none"
    /\ ~Running
    /\ queue = <<>>
    /\ yearsLeft = <<>>
    /\ run' = "none"
    /\ intr' = NoIntr
    /\ exit_code' = <<0>>
    /\ UNCHANGED <<disk, today, yearsLeft, queue, job, ever, arrivals, faults>>
    /\ UNCHANGED call

\* main() of either tier where data_dir does not exist (the collector has
\* not written yet): [WARN] and return
NoDataDir ==
    /\ run = "none"
    /\ disk = <<>>
    /\ arrivals = 0
    /\ exit_code' = <<0>>
    /\ job' = NoJob
    /\ UNCHANGED <<disk, today, run, yearsLeft, queue, ever, arrivals,
                   faults, intr, call>>

\* check_dependencies() calls sys.exit(1), or an exception leaves main()
\* before the loop over the windows
TopLevelFailure ==
    /\ run = "none"
    /\ faults < MaxFaults
    /\ exit_code' = <<1>>
    /\ faults' = faults + 1
    /\ job' = NoJob
    /\ intr' = NoIntr
    /\ UNCHANGED <<disk, today, run, yearsLeft, queue, ever, arrivals, call>>

----------------------------------------------------------------------------
(* merge_and_validate / merge_yearly_and_validate *)
Fail(at) ==
    [job EXCEPT !.pc = "except", !.failedAt = at, !.nfail = @ + 1]

\* variant of ReadShards: an existing target is merged in with the shards
ReadShardsAndTarget ==
    /\ job.pc = "read"
    /\ LET fs  == IF output_file(job.key) \in DOMAIN disk
                  THEN Append(job.files, output_file(job.key))
                  ELSE job.files
           dfs == [k \in 1..Len(fs) |-> disk[fs[k]]]
       IN  IF \E k \in 1..Len(fs) : fs[k] \notin DOMAIN disk
           THEN job' = [job EXCEPT !.pc = "except", !.failedAt = "read"]
           ELSE IF dfs = <<>>
           THEN job' = [job EXCEPT !.pc = "done", !.result = "False"]
           ELSE IF BufferRaises(job.tier, dfs)
           THEN job' = [job EXCEPT !.pc = "except", !.failedAt = "sort"]
           ELSE job' = [job EXCEPT !.pc = "write", !.out = TRUE,
                                   !.buf = Buffer(job.tier, dfs)]
    /\ UNCHANGED <<disk, today, run, yearsLeft, queue, ever, arrivals,
                   faults, intr>>
    /\ UNCHANGED <<call, exit_code>>

\* dfs = [pd.read_parquet(f) for f in files] .. output_file = ...
ReadShards ==
    /\ job.pc = "read"
    /\ LET dfs == [k \in 1..Len(job.files) |-> disk[job.files[k]]]
       IN  IF \E k \in 1..Len(job.files) : job.files[k] \notin DOMAIN disk
           THEN job' = [job EXCEPT !.pc = "except", !.failedAt = "read"]
           ELSE IF dfs = <<>>
           THEN job' = [job EXCEPT !.pc = "done", !.result = "False"]
           ELSE IF BufferRaises(job.tier, dfs)
           THEN job' = [job EXCEPT !.pc = "except", !.failedAt = "sort"]
           ELSE job' = [job EXCEPT !.pc = "write", !.out = TRUE,
                                   !.buf = Buffer(job.tier, dfs)]
    /\ UNCHANGED <<disk, today, run, yearsLeft, queue, ever, arrivals,
                   faults, intr>>
    /\ UNCHANGED <<call, exit_code>>

\* pd.read_parquet of an input shard raises
ReadFails ==
    /\ job.pc = "read"
    /\ faults < MaxFaults
    /\ job' = Fail("read")
    /\ faults' = faults + 1
    /\ UNCHANGED <<disk, today, run, yearsLeft, queue, ever, arrivals, intr>>
    /\ UNCHANGED <<call, exit_code>>

\* variant of WriteCandidate: the buffer is written over the first input shard
WriteCandidateInPlace ==
    /\ job.pc = "write"
    /\ disk' = WriteFile(disk, job.files[1], job.buf)
    /\ job' = [job EXCEPT !.pc = "verify"]
    /\ UNCHANGED <<today, run, yearsLeft, queue, ever, arrivals, faults, intr>>
    /\ UNCHANGED <<call, exit_code>>

\* daily_combined.to_parquet(output_file, ...)
WriteCandidate ==
    /\ job.pc = "write"
    /\ disk' = WriteFile(disk, output_file(job.key), job.buf)
    /\ job' = [job EXCEPT !.pc = "verify"]
    /\ UNCHANGED <<today, run, yearsLeft, queue, ever, arrivals, faults, intr>>
    /\ UNCHANGED <<call, exit_code>>

\* to_parquet raises, leaving no file, the old file or a truncated file
WriteFails ==
    /\ job.pc = "write"
    /\ faults < MaxFaults
    /\ \/ disk' = disk
       \/ disk' = WriteFile(disk, output_file(job.key), Truncated(job.buf))
    /\ job' = Fail("write")
    /\ faults' = faults + 1
    /\ UNCHANGED <<today, run, yearsLeft, queue, ever, arrivals,
                   intr>>
    /\ UNCHANGED <<call, exit_code>>

\* to_parquet returns but the stored file does not hold the buffer
WriteCorrupts ==
    /\ job.pc = "write"
    /\ faults < MaxFaults
    /\ \E c \in Corruptions(job.buf) :
          disk' = WriteFile(disk, output_file(job.key), c)
    /\ job' = [job EXCEPT !.pc = "verify", !.nfail = @ + 1]
    /\ faults' = faults + 1
    /\ UNCHANGED <<today, run, yearsLeft, queue, ever, arrivals,
                   intr>>
    /\ UNCHANGED <<call, exit_code>>

\* variant of VerifyCandidate: the cleanup is reached without the comparison
VerifyCandidateUnchecked ==
    /\ job.pc = "verify"
    /\ IF output_file(job.key) \notin DOMAIN disk
       THEN job' = [job EXCEPT !.pc = "except", !.failedAt = "reread"]
       ELSE job' = [job EXCEPT !.pc = "cleanup", !.verified = TRUE, !.i = 1]
    /\ UNCHANGED <<disk, today, run, yearsLeft, queue, ever, arrivals,
                   faults, intr>>
    /\ UNCHANGED <<call, exit_code>>

\* saved_df = pd.read_parquet(output_file); re-sort; assert_frame_equal
VerifyCandidate ==
    /\ job.pc = "verify"
    /\ IF output_file(job.key) \notin DOMAIN disk
       THEN job' = [job EXCEPT !.pc = "except", !.failedAt = "reread"]
       ELSE IF Verified(job.tier, job.buf, disk[output_file(job.key)])
       THEN job' = [job EXCEPT !.pc = "cleanup", !.verified = TRUE, !.i = 1]
       ELSE job' = [job EXCEPT !.pc = "except", !.failedAt = "compare"]
    /\ UNCHANGED <<disk, today, run, yearsLeft, queue, ever, arrivals,
                   faults, intr>>
    /\ UNCHANGED <<call, exit_code>>

\* pd.read_parquet(output_file) raises
RereadFails ==
    /\ job.pc = "verify"
    /\ faults < MaxFaults
    /\ job' = Fail("reread")
    /\ faults' = faults + 1
    /\ UNCHANGED <<disk, today, run, yearsLeft, queue, ever, arrivals, intr>>
    /\ UNCHANGED <<call, exit_code>>

\* for f in files: os.remove(f)
RemoveShard ==
    /\ job.pc = "cleanup"
    /\ job.i <= Len(job.files)
    /\ IF job.files[job.i] \in DOMAIN disk
       THEN /\ disk' = RemoveFile(disk, job.files[job.i])
            /\ job' = [job EXCEPT !.i = @ + 1]
       ELSE /\ disk' = disk
            /\ job' = [job EXCEPT !.pc = "except", !.failedAt = "cleanup"]
    /\ UNCHANGED <<today, run, yearsLeft, queue, ever, arrivals, faults, intr>>
    /\ UNCHANGED <<call, exit_code>>

\* os.remove(f) raises
RemoveFails ==
    /\ job.pc = "cleanup"
    /\ job.i <= Len(job.files)
    /\ faults < MaxFaults
    /\ job' = Fail("cleanup")
    /\ faults' = faults + 1
    /\ UNCHANGED <<disk, today, run, yearsLeft, queue, ever, arrivals, intr>>
    /\ UNCHANGED <<call, exit_code>>

\* return True
Commit ==
    /\ job.pc = "cleanup"
    /\ job.i > Len(job.files)
    /\ job' = [job EXCEPT !.pc = "done", !.result = "True"]
    /\ UNCHANGED <<disk, today, run, yearsLeft, queue, ever, arrivals,
                   faults, intr>>
    /\ UNCHANGED <<call, exit_code>>

\* variant of Rollback: the handler returns False without removing the file
RollbackKeepsCandidate ==
    /\ job.pc = "except"
    /\ job' = [job EXCEPT !.pc = "done", !.result = "False"]
    /\ UNCHANGED <<disk, today, run, yearsLeft, queue, ever, arrivals,
                   faults, intr>>
    /\ UNCHANGED <<call, exit_code>>

\* variant of Rollback: the exception leaves the job function and ends the
\* run
RollbackAborts ==
    /\ job.pc = "except"
    /\ disk' = IF job.out /\ output_file(job.key) \in DOMAIN disk
               THEN RemoveFile(disk, output_file(job.key))
               ELSE disk
    /\ job' = [job EXCEPT !.pc = "done", !.result = "False"]
    /\ run' = "none"
    /\ yearsLeft' = <<>>
    /\ queue' = <<>>
    /\ exit_code' = <<1>>
    /\ UNCHANGED <<today, ever, arrivals, faults, intr, call>>

\* variant of Rollback: the handler removes the file and the job is tried again
RollbackRetries ==
    /\ job.pc = "except"
    /\ disk' = IF job.out /\ output_file(job.key) \in DOMAIN disk
               THEN RemoveFile(disk, output_file(job.key))
               ELSE disk
    /\ job' = [job EXCEPT !.pc = "read"]
    /\ UNCHANGED <<today, run, yearsLeft, queue, ever, arrivals, faults, intr>>
    /\ UNCHANGED <<call, exit_code>>

\* variant of Rollback: the handler removes the output file whether or not
\* the path was bound inside the try block
RollbackUnbound ==
    /\ job.pc = "except"
    /\ disk' = IF output_file(job.key) \in DOMAIN disk
               THEN RemoveFile(disk, output_file(job.key))
               ELSE disk
    /\ job' = [job EXCEPT !.pc = "done", !.result = "False"]
    /\ UNCHANGED <<today, run, yearsLeft, queue, ever, arrivals, faults, intr>>
    /\ UNCHANGED <<call, exit_code>>

\* except Exception: remove output_file if it is bound and exists;
\* return False
Rollback ==
    /\ job.pc = "except"
    /\ disk' = IF job.out /\ output_file(job.key) \in DOMAIN disk
               THEN RemoveFile(disk, output_file(job.key))
               ELSE disk
    /\ job' = [job EXCEPT !.pc = "done", !.result = "False"]
    /\ UNCHANGED <<today, run, yearsLeft, queue, ever, arrivals, faults, intr>>
    /\ UNCHANGED <<call, exit_code>>

\* os.remove(output_file) raises in the handler: except: pass
RollbackFails ==
    /\ job.pc = "except"
    /\ job.out /\ output_file(job.key) \in DOMAIN disk
    /\ faults < MaxFaults
    /\ job' = [job EXCEPT !.pc = "done", !.result = "False",
                          !.rbFailed = TRUE, !.nfail = @ + 1]
    /\ faults' = faults + 1
    /\ UNCHANGED <<disk, today, run, yearsLeft, queue, ever, arrivals, intr>>
    /\ UNCHANGED <<call, exit_code>>

\* the process is killed while a job is running; no handler runs
Interrupt ==
    /\ Running
    /\ faults < MaxFaults
    /\ intr' = IF job.pc \in {"verify", "cleanup"}
               THEN [pc |-> job.pc, tier |-> job.tier, key |-> job.key,
                     files |-> job.files, i |-> job.i, pre |-> job.pre,
                     at |-> disk]
               ELSE NoIntr
    /\ run' = "none"
    /\ yearsLeft' = <<>>
    /\ queue' = <<>>
    /\ job' = NoJob
    /\ faults' = faults + 1
    /\ UNCHANGED <<disk, today, ever, arrivals>>
    /\ exit_code' = <<1>>
    /\ UNCHANGED call

----------------------------------------------------------------------------
Next ==
    \/ Arrive
    \/ AdvanceDate
    \/ StartMonthRun
    \/ ScanYear
    \/ StartYearRun
    \/ SkipWindow
    \/ StartJob
    \/ EndRun
    \/ NoDataDir
    \/ TopLevelFailure
    \/ ReadShards
    \/ ReadFails
    \/ WriteCandidate
    \/ WriteFails
    \/ WriteCorrupts
    \/ VerifyCandidate
    \/ RereadFails
    \/ RemoveShard
    \/ RemoveFails
    \/ Commit
    \/ Rollback
    \/ RollbackFails
    \/ Interrupt

Spec == Init /\ [][Next]_vars

----------------------------------------------------------------------------
(* Single calls of the gate functions: the key text, the wait and the      *)
(* current date are the inputs; the call returns its verdict.              *)
MaxWait == 5

GateYears == {2020, 2021, 9999}

\* the key get_monthly_groups forms from a day file of month m of year y,
\* and get_yearly_groups from a month file of year y
MonthKeyStr(y, m) == Zfill(y, 4) \o <<"-">> \o Zfill(m, 2)

YearKeyStr(y) == Zfill(y, 4)

\* texts that are not the key of a calendar month: a month number out of
\* range, a wrong shape, parts that are not numbers
OtherMonthStrs ==
    { <<"2", "0", "2", "0", "-", "0", "0">>,
      <<"2", "0", "2", "0", "-", "1", "3">>,
      <<"2", "0", "2", "0", "-", "1">>,
      <<"2", "0", "2", "0">>,
      <<"2", "0", "2", "0", "-", "0", "1", "-", "0", "1">>,
      <<"2", "0", "2", "0", "0", "1">>,
      <<"2", "0", "2", "0", "-">>,
      <<"2", "0", "2", "0", "-", "x", "x">>,
      <<"a", "b", "c", "d", "-", "e", "f">>,
      <<" ", "2", "0", "2", "0", "-", "0", "1">>,
      <<>> }

\* texts that are not the key of a year
OtherYearStrs ==
    { <<"2", "0">>,
      <<"2", "0", "2", "0", "-", "0", "1">>,
      <<"2", "0", "x", "0">>,
      <<"a", "b", "c", "d">>,
      <<"2", "0", "2", "0", "0">>,
      <<"2", "_", "0", "2", "0">>,
      <<>> }

MonthStrs == {MonthKeyStr(y, m) : y \in GateYears, m \in 1..12}
                \cup OtherMonthStrs

YearStrs == {YearKeyStr(y) : y \in GateYears} \cup OtherYearStrs

GateDates ==
    {dt \in {2020, 2021} \X (1..12) \X (1..31) : ~date_raises(dt)}

InitGate ==
    /\ disk = <<>>
    /\ today \in GateDates
    /\ run = "none"
    /\ yearsLeft = <<>>
    /\ queue = <<>>
    /\ job = NoJob
    /\ ever = {}
    /\ arrivals = 0
    /\ faults = 0
    /\ intr = NoIntr
    /\ exit_code = <<>>
    /\ call \in
          {[NoCall EXCEPT !.fn = "is_safe_to_merge", !.pc = "called",
                          !.key = k, !.wait = w] :
              k \in MonthStrs, w \in 0..MaxWait}
          \cup
          {[NoCall EXCEPT !.fn = "is_past_year", !.pc = "called",
                          !.key = k] : k \in YearStrs}

\* is_safe_to_merge(month_str, days_wait) returns
ReturnIsSafeToMerge ==
    /\ call.pc = "called"
    /\ call.fn = "is_safe_to_merge"
    /\ call' = [call EXCEPT
                  !.pc = "returned",
                  !.ret = is_safe_to_merge_str(call.key, call.wait, today)]
    /\ UNCHANGED <<disk, today, run, yearsLeft, queue, job, ever, arrivals,
                   faults, intr, exit_code>>

\* is_past_year(year_str) returns
ReturnIsPastYear ==
    /\ call.pc = "called"
    /\ call.fn = "is_past_year"
    /\ call' = [call EXCEPT !.pc = "returned",
                            !.ret = is_past_year_str(call.key, today)]
    /\ UNCHANGED <<disk, today, run, yearsLeft, queue, job, ever, arrivals,
                   faults, intr, exit_code>>

NextGate ==
    \/ ReturnIsSafeToMerge
    \/ ReturnIsPastYear

GateSpec == InitGate /\ [][NextGate]_vars

----------------------------------------------------------------------------
(* Single calls of the job functions on files of any schema, as the unit   *)
(* tests make them: merge_and_validate('2020-01', files, root, sort key)   *)
\* frames a shard may hold: with the SortKey columns, with one of them,
\* with none
JobFrames ==
    {Frame(c) : c \in ShardContents}
    \cup { [cols |-> <<"close">>,
            rows |-> <<[close |-> 20], [close |-> 10]>>],
           [cols |-> <<"close">>,
            rows |-> <<[close |-> 10]>>],
           [cols |-> <<"symbol", "close">>,
            rows |-> <<[symbol |-> 2, close |-> 10],
                       [symbol |-> 1, close |-> 10]>>],
           Frame(<<Row(1, 1, 20)>>) }

\* the shard files of the window the call is made for
JobFiles(tier) ==
    IF tier = "month" THEN {<<2020, 1, 1>>, <<2020, 1, 2>>}
    ELSE {<<2020, 1>>, <<2020, 2>>}

JobKey(tier) == IF tier = "month" THEN <<2020, 1>> ELSE <<2020>>

\* the lists that hold every element of S once
Orderings(S) ==
    {fs \in [1..Cardinality(S) -> S] : Range(fs) = S}

\* variant of sorted_files: the files are loaded in the order they were given
files_as_given(files) == files

\* files = sorted(files), for the list the caller passed
sorted_files(files) == sorted(Range(files))

\* the caller passes the files of the window in any order
InitJob ==
    /\ today = <<2021, 1, 6>>
    /\ run \in {"month", "year"}
    /\ disk \in UNION {[fs -> JobFrames] : fs \in SUBSET JobFiles(run) \ {{}}}
    /\ \E files \in Orderings(DOMAIN disk) :
          /\ call = [fn |-> "merge", pc |-> "called", key |-> JobKey(run),
                     files |-> files]
          /\ job = [NoJob EXCEPT !.pc = "read", !.tier = run,
                                 !.key = JobKey(run),
                                 !.files = sorted_files(files), !.pre = disk]
    /\ yearsLeft = <<>>
    /\ queue = <<>>
    /\ ever = RowsOn(disk)
    /\ arrivals = 0
    /\ faults = 0
    /\ intr = NoIntr
    /\ exit_code = <<>>

NextJob ==
    \/ ReadShards
    \/ WriteCandidate
    \/ VerifyCandidate
    \/ RemoveShard
    \/ Commit
    \/ Rollback

JobSpec == InitJob /\ [][NextJob]_vars

----------------------------------------------------------------------------
(* Single calls of the ShardCatalog functions on a dataset root given by   *)
(* the names of its entries: disk maps the name of every entry of the root *)
(* to its kind and, for a directory, to the names of the files in it       *)
Parquet == <<".", "p", "a", "r", "q", "u", "e", "t">>

\* year_dir.glob('*.parquet') yields the entry of this name
glob_parquet(name) ==
    /\ Len(name) >= Len(Parquet)
    /\ SubSeq(name, Len(name) - Len(Parquet) + 1, Len(name)) = Parquet

\* Path.stem: the name without its last suffix
stem(name) ==
    LET dots == {i \in 1..Len(name) : name[i] = "."}
        i    == IF dots = {} THEN 0
                ELSE CHOOSE k \in dots : \A j \in dots : j <= k
    IN  IF i > 1 /\ i < Len(name) THEN SubSeq(name, 1, i - 1) ELSE name

\* the part of s a pattern must cover up to its final $: $ matches at the
\* end of s and also just before a newline that ends s
BeforeDollar(s) ==
    IF s # <<>> /\ s[Len(s)] = "\n" THEN SubSeq(s, 1, Len(s) - 1) ELSE s

\* re.compile(r'^(\d{4})-(\d{2})-\d{2}$').match(s): the two groups, or <<>>
date_pattern_match(s) ==
    LET b == BeforeDollar(s)
    IN  IF /\ Len(b) = 10
           /\ \A i \in {1, 2, 3, 4, 6, 7, 9, 10} : IsDigit(b[i])
           /\ b[5] = "-" /\ b[8] = "-"
        THEN <<SubSeq(b, 1, 4), SubSeq(b, 6, 7)>>
        ELSE <<>>

\* variant of month_pattern_match: the pattern without its final $
month_pattern_prefix_match(s) ==
    IF /\ Len(s) >= 7
       /\ \A i \in {1, 2, 3, 4, 6, 7} : IsDigit(s[i])
       /\ s[5] = "-"
    THEN <<SubSeq(s, 1, 4), SubSeq(s, 6, 7)>>
    ELSE <<>>

\* re.compile(r'^(\d{4})-(\d{2})$').match(s): the two groups, or <<>>
month_pattern_match(s) ==
    LET b == BeforeDollar(s)
    IN  IF /\ Len(b) = 7
           /\ \A i \in {1, 2, 3, 4, 6, 7} : IsDigit(b[i])
           /\ b[5] = "-"
        THEN <<SubSeq(b, 1, 4), SubSeq(b, 6, 7)>>
        ELSE <<>>

\* str(n) of an int
str(n) == IF n < 0 THEN <<"-">> \o Zfill(0 - n, 1) ELSE Zfill(n, 1)

\* get_monthly_groups(data_dir, year): { 'YYYY-MM': paths }, a path being
\* <<directory name, file name>>
get_monthly_groups_str(tree, year) ==
    LET dir    == str(year)
        fs     == IF dir \notin DOMAIN tree THEN {}
                  ELSE {f \in tree[dir].files :
                           /\ glob_parquet(f)
                           /\ date_pattern_match(stem(f)) # <<>>}
        key(f) == LET m == date_pattern_match(stem(f))
                  IN  m[1] \o <<"-">> \o m[2]
    IN  [k \in {key(f) : f \in fs} |-> {<<dir, f>> : f \in {g \in fs : key(g) = k}}]

\* get_yearly_groups(data_dir): { 'YYYY': paths }
get_yearly_groups_str(tree) ==
    LET ps     == {p \in UNION {{<<d, f>> : f \in tree[d].files} : d \in DOMAIN tree} :
                      /\ tree[p[1]].dir
                      /\ int(p[1]) # <<>>
                      /\ glob_parquet(p[2])
                      /\ month_pattern_match(stem(p[2])) # <<>>}
        key(p) == month_pattern_match(stem(p[2]))[1]
    IN  [k \in {key(p) : p \in ps} |-> {p \in ps : key(p) = k}]

\* merge_and_validate: output_file = target_dir / year / f"{month_key}.parquet"
\* with year = month_key.split('-')[0]
output_file_str(month_key) ==
    <<split(month_key, "-")[1], month_key \o Parquet>>

\* merge_yearly_and_validate: output_file = target_dir / year_key /
\* f"{year_key}.parquet"
yearly_output_file_str(year_key) == <<year_key, year_key \o Parquet>>

\* names of files: a day shard, a month shard, a year archive
DayFile(y, m, d) ==
    Zfill(y, 4) \o <<"-">> \o Zfill(m, 2) \o <<"-">> \o Zfill(d, 2) \o Parquet

MonthFile(y, m) == Zfill(y, 4) \o <<"-">> \o Zfill(m, 2) \o Parquet

YearFile(y) == Zfill(y, 4) \o Parquet

\* what a directory of the root may hold: nothing; day shards of two months;
\* shards of both tiers and a year archive; month shards; files of other
\* names
DirListings ==
    { {},
      {DayFile(2020, 1, 1), DayFile(2020, 1, 2), DayFile(2020, 2, 1)},
      {DayFile(2020, 1, 1), MonthFile(2020, 1), YearFile(2020)},
      {MonthFile(2020, 1), MonthFile(2020, 2), MonthFile(2021, 1)},
      { <<"2", "0", "2", "0", "-", "0", "1", "-", "0", "1", ".", "t", "x", "t">>,
        <<"2", "0", "2", "0", "-", "1", "-", "1">> \o Parquet,
        <<"2", "0", "2", "0", "-", "0", "1", "-", "0", "1", "\n">> \o Parquet,
        <<"2", "0", "2", "0", "-", "0", "1", "\n">> \o Parquet,
        <<"n", "o", "t", "e", "s">> \o Parquet } }

\* names of the entries of the root
DirTexts ==
    { <<"2", "0", "2", "0">>, <<"2", "0", "2", "1">>, <<"t", "m", "p">> }

\* an entry is a plain file or a directory with one of the listings
Entries ==
    {[dir |-> FALSE, files |-> {}]}
    \cup {[dir |-> TRUE, files |-> l] : l \in DirListings}

Trees == UNION {[ns -> Entries] : ns \in SUBSET DirTexts}

\* years get_monthly_groups is called for
CatalogYears == {2020, 2021}

InitCatalog ==
    /\ disk \in Trees
    /\ today = <<2021, 1, 6>>
    /\ run = "none"
    /\ yearsLeft = <<>>
    /\ queue = <<>>
    /\ job = NoJob
    /\ ever = {}
    /\ arrivals = 0
    /\ faults = 0
    /\ intr = NoIntr
    /\ exit_code = <<>>
    /\ call \in
          {[fn |-> "get_monthly_groups", pc |-> "called", year |-> y,
            ret |-> <<>>, made |-> {}] : y \in CatalogYears}
          \cup
          {[fn |-> "get_yearly_groups", pc |-> "called", year |-> 0,
            ret |-> <<>>, made |-> {}]}

\* get_monthly_groups(data_dir, year) returns
ReturnMonthlyGroups ==
    /\ call.pc = "called"
    /\ call.fn = "get_monthly_groups"
    /\ call' = [call EXCEPT !.pc = "returned",
                            !.ret = get_monthly_groups_str(disk, call.year)]
    /\ UNCHANGED <<disk, today, run, yearsLeft, queue, job, ever, arrivals,
                   faults, intr, exit_code>>

\* get_yearly_groups(data_dir) returns
ReturnYearlyGroups ==
    /\ call.pc = "called"
    /\ call.fn = "get_yearly_groups"
    /\ call' = [call EXCEPT !.pc = "returned",
                            !.ret = get_yearly_groups_str(disk)]
    /\ UNCHANGED <<disk, today, run, yearsLeft, queue, job, ever, arrivals,
                   faults, intr, exit_code>>

\* the month tier job of a group get_monthly_groups returned writes its
\* target (to_parquet needs the directory of the target to be there), and
\* the year tier script is run on the root afterwards
WriteMonthTarget ==
    /\ call.pc = "returned"
    /\ call.fn = "get_monthly_groups"
    /\ \E k \in DOMAIN call.ret :
          LET t == output_file_str(k)
          IN  /\ t[1] \in DOMAIN disk
              /\ disk[t[1]].dir
              /\ disk' = [disk EXCEPT ![t[1]].files = @ \cup {t[2]}]
              /\ call' = [fn |-> "get_yearly_groups", pc |-> "called",
                          year |-> 0, ret |-> <<>>, made |-> {t}]
    /\ UNCHANGED <<today, run, yearsLeft, queue, job, ever, arrivals, faults,
                   intr, exit_code>>

NextCatalog == ReturnMonthlyGroups \/ ReturnYearlyGroups \/ WriteMonthTarget

CatalogSpec == InitCatalog /\ [][NextCatalog]_vars

----------------------------------------------------------------------------
(* Batch runs that are left to run to their end: the process is not killed *)
(* and no shard arrives while main() runs                                  *)
\* dataset roots a run can find: day shards the collector wrote up to today
RunDisks(now) ==
    UNION {[ns -> {Frame(c) : c \in ShardContents}] :
              ns \in {n \in SUBSET {d \in DayNames : SeqLE(d, now)} :
                         n # {} /\ Cardinality(n) <= MaxArrivals}}

InitRun ==
    /\ today \in Calendar
    /\ disk \in RunDisks(today)
    /\ run = "none"
    /\ yearsLeft = <<>>
    /\ queue = <<>>
    /\ job = NoJob
    /\ ever = RowsOn(disk)
    /\ arrivals = Cardinality(DOMAIN disk)
    /\ faults = 0
    /\ intr = NoIntr
    /\ exit_code = <<>>
    /\ call = NoCall

\* a statement of main() or of the job function is executed
Step ==
    \/ ScanYear
    \/ SkipWindow
    \/ StartJob
    \/ EndRun
    \/ ReadShards
    \/ WriteCandidate
    \/ VerifyCandidate
    \/ RemoveShard
    \/ Commit
    \/ Rollback

NextRun ==
    \/ StartMonthRun
    \/ StartYearRun
    \/ Step
    \/ ReadFails
    \/ WriteFails
    \/ WriteCorrupts
    \/ RereadFails
    \/ RemoveFails
    \/ RollbackFails

\* ENABLED <<Step>>_vars, from the guards of the actions of Step: main() has
\* a next statement to execute
StepEnabled ==
    \/ run = "month" /\ ~Running /\ queue = <<>> /\ yearsLeft # <<>>
    \/ /\ run # "none" /\ ~Running /\ queue # <<>>
       /\ Gate(run, Head(queue).key, today) => Head(queue).files # {}
    \/ run # "none" /\ ~Running /\ queue = <<>> /\ yearsLeft = <<>>
    \/ Running

\* weak fairness of Step, WF_vars(Step): a main() that has a next statement
\* executes it
RunSpec ==
    /\ InitRun
    /\ [][NextRun]_vars
    /\ ([]<>(~StepEnabled) \/ []<><<Step>>_vars)

----------------------------------------------------------------------------
(* The month tier scripts of two dataset roots, run at the same time: disk  *)
(* maps the path <<root, year, month, day>> of every file below data/ to    *)
(* its table, and call maps each script to the position of its main()       *)
Scripts == {"merge_kr1d", "merge_kr1m"}

\* variant of data_dir: both scripts are given the root of the first
data_dir_shared(script) == "KR-1d"

\* data_dir = project_root / "data" / <name>
data_dir(script) == IF script = "merge_kr1d" THEN "KR-1d" ELSE "KR-1m"

\* the sort key the script passes to merge_and_validate
sort_key(script) ==
    IF script = "merge_kr1d" THEN <<"symbol", "date">> ELSE <<"symbol", "dt">>

\* data_dir / <year> / <name>
Abs(root, n) == <<root>> \o n

\* the files below the root, by their paths below it
Under(fs, root) ==
    [n \in {Tail(q) : q \in {f \in DOMAIN fs : f[1] = root}} |-> fs[Abs(root, n)]]

\* tables of the day shards of a root
RootShards(root) ==
    IF root = "KR-1d" THEN {Frame(c) : c \in ShardContents}
    ELSE { [cols |-> <<"symbol", "dt", "close">>,
            rows |-> <<[symbol |-> 1, dt |-> 2, close |-> 10],
                       [symbol |-> 1, dt |-> 1, close |-> 10]>>] }

\* the day shards a root may hold
RootTrees(root) ==
    UNION {[ns -> RootShards(root)] :
              ns \in {n \in SUBSET DayNames : Cardinality(n) <= MaxArrivals}}

NoProc ==
    [pc |-> "start", years |-> <<>>, queue |-> <<>>, key |-> <<>>,
     files |-> <<>>, buf |-> EmptyFrame, touched |-> {}, pre |-> <<>>]

InitRoots ==
    /\ today \in {<<2021, 1, 1>>, <<2021, 1, 6>>}
    /\ \E a \in RootTrees("KR-1d"), b \in RootTrees("KR-1m") :
          disk = [f \in {Abs("KR-1d", n) : n \in DOMAIN a}
                        \cup {Abs("KR-1m", n) : n \in DOMAIN b} |->
                     IF f[1] = "KR-1d" THEN a[Tail(f)] ELSE b[Tail(f)]]
    /\ call = [script \in Scripts |-> [NoProc EXCEPT !.pre = disk]]
    /\ run = "none"
    /\ yearsLeft = <<>>
    /\ queue = <<>>
    /\ job = NoJob
    /\ ever = {}
    /\ arrivals = 0
    /\ faults = 0
    /\ intr = NoIntr
    /\ exit_code = <<>>

\* main() starts: sorted(data_dir.glob('*'))
RootStart(script) ==
    /\ call[script].pc = "start"
    /\ call' = [call EXCEPT ![script].pc = "loop",
                            ![script].years =
                                year_dirs(Under(disk, data_dir(script)))]
    /\ UNCHANGED <<disk, today, run, yearsLeft, queue, job, ever, arrivals,
                   faults, intr, exit_code>>

\* groups = get_monthly_groups(data_dir, year) for the next year directory
RootScan(script) ==
    /\ call[script].pc = "loop"
    /\ call[script].queue = <<>>
    /\ call[script].years # <<>>
    /\ call' = [call EXCEPT
                  ![script].queue =
                      items(get_monthly_groups(Under(disk, data_dir(script)),
                                               Head(call[script].years)[1])),
                  ![script].years = Tail(@)]
    /\ UNCHANGED <<disk, today, run, yearsLeft, queue, job, ever, arrivals,
                   faults, intr, exit_code>>

\* the next window: skipped, or its shards are read and merged
RootTake(script) ==
    /\ call[script].pc = "loop"
    /\ call[script].queue # <<>>
    /\ LET root  == data_dir(script)
           w     == Head(call[script].queue)
           files == sorted(w.files)
           there == \A k \in 1..Len(files) : Abs(root, files[k]) \in DOMAIN disk
           dfs   == [k \in 1..Len(files) |-> disk[Abs(root, files[k])]]
           c     == drop_duplicates(concat(dfs))
       IN  IF ~is_safe_to_merge(w.key, days_wait, today)
           THEN call' = [call EXCEPT ![script].queue = Tail(@)]
           ELSE IF ~there \/ SortRaises(c, sort_key(script))
           THEN call' = [call EXCEPT
                           ![script].queue = Tail(@),
                           ![script].touched =
                               @ \cup {Abs(root, f) : f \in w.files}]
           ELSE call' = [call EXCEPT
                           ![script].queue = Tail(@),
                           ![script].pc = "write",
                           ![script].key = w.key,
                           ![script].files = files,
                           ![script].buf = sort_values(c, sort_key(script)),
                           ![script].touched =
                               @ \cup {Abs(root, f) : f \in w.files}]
    /\ UNCHANGED <<disk, today, run, yearsLeft, queue, job, ever, arrivals,
                   faults, intr, exit_code>>

\* daily_combined.to_parquet(output_file, ...)
RootWrite(script) ==
    /\ call[script].pc = "write"
    /\ LET target == Abs(data_dir(script), output_file(call[script].key))
       IN  /\ disk' = WriteFile(disk, target, call[script].buf)
           /\ call' = [call EXCEPT ![script].pc = "verify",
                                   ![script].touched = @ \cup {target}]
    /\ UNCHANGED <<today, run, yearsLeft, queue, job, ever, arrivals,
                   faults, intr, exit_code>>

\* the re-read and the comparison, then the cleanup or the handler
RootVerify(script) ==
    /\ call[script].pc = "verify"
    /\ LET root   == data_dir(script)
           p      == call[script]
           target == Abs(root, output_file(p.key))
           ins    == {Abs(root, f) : f \in Range(p.files)}
           ok     == /\ target \in DOMAIN disk
                     /\ ~SortRaises(disk[target], sort_key(script))
                     /\ assert_frame_equal(
                            p.buf, sort_values(disk[target], sort_key(script)))
                     /\ ins \subseteq DOMAIN disk
       IN  /\ disk' = IF ok THEN [f \in DOMAIN disk \ ins |-> disk[f]]
                      ELSE [f \in DOMAIN disk \ {target} |-> disk[f]]
           /\ call' = [call EXCEPT ![script].pc = "loop",
                                   ![script].touched = @ \cup ins \cup {target}]
    /\ UNCHANGED <<today, run, yearsLeft, queue, job, ever, arrivals,
                   faults, intr, exit_code>>

\* main() returns
RootEnd(script) ==
    /\ call[script].pc = "loop"
    /\ call[script].queue = <<>>
    /\ call[script].years = <<>>
    /\ call' = [call EXCEPT ![script].pc = "done"]
    /\ UNCHANGED <<disk, today, run, yearsLeft, queue, job, ever, arrivals,
                   faults, intr, exit_code>>

NextRoots ==
    \E script \in Scripts :
        \/ RootStart(script)
        \/ RootScan(script)
        \/ RootTake(script)
        \/ RootWrite(script)
        \/ RootVerify(script)
        \/ RootEnd(script)

RootsSpec == InitRoots /\ [][NextRoots]_vars

----------------------------------------------------------------------------
(* Raw-source Validator: validate_year for a dataset with a float column,  *)
(* as US-5m: SortKey (symbol, dt), price float, volume int.  A price is    *)
(* held in millionths.                                                     *)
MaxRows == 2

sort_cols == <<"symbol", "dt">>

ValCols == <<"symbol", "dt", "price", "volume">>

VRow(s, t, p, v) == [symbol |-> s, dt |-> t, price |-> p, volume |-> v]

\* rows of the raw files and of the archive: two keys, a price, the price
\* a hundred-thousandth of it higher, another price, another volume
ValRows ==
    {VRow(1, t, p, 10) : t \in {1, 2}, p \in {1000000, 1000005, 1100000}}
    \cup {VRow(1, 1, 1000000, 20)}

\* the .txt files of the year directory as read_txt_file finds them: a file
\* of one row, or a file it cannot parse and returns None for
TxtFiles ==
    {[parsed |-> TRUE, cols |-> ValCols, rows |-> <<r>>] : r \in ValRows}
    \cup {[parsed |-> FALSE, cols |-> <<>>, rows |-> <<>>]}

TxtLists == UNION {[1..n -> TxtFiles] : n \in 0..MaxRows}

\* txt_dfs = [df for df in txt_dfs if df is not None]
txt_dfs(txts) ==
    LET read == SelectSeq(txts, LAMBDA t : t.parsed)
    IN  [i \in 1..Len(read) |-> [cols |-> read[i].cols, rows |-> read[i].rows]]

\* the archive: missing, with rows of the schema, or without the volume column
Archives ==
    {[exists |-> FALSE, cols |-> <<>>, rows |-> <<>>]}
    \cup UNION {{[exists |-> TRUE, cols |-> ValCols, rows |-> rs] :
                    rs \in [1..n -> ValRows]} : n \in 0..MaxRows}
    \cup { [exists |-> TRUE, cols |-> <<"symbol", "dt", "price">>,
            rows |-> <<[symbol |-> 1, dt |-> 1, price |-> 1000000]>>] }

\* pd.api.types.is_float_dtype of the column
is_float(col) == col = "price"

fabs(x) == IF x < 0 THEN 0 - x ELSE x

\* np.isclose(a, b, equal_nan=True): |a - b| <= atol + rtol * |b| with
\* rtol = 1e-05 and atol = 1e-08, on values held in millionths
isclose(a, b) ==
    IF a = NaN \/ b = NaN THEN a = b
    ELSE fabs(a - b) <= (1000 + fabs(b)) \div 100000

\* variant of merge_inner: how='outer', the right rows without a left row of
\* their key are joined to a row of NaN
merge_outer(left, right, on) ==
    LET RECURSIVE inner(_)
        inner(l) ==
            IF l = <<>> THEN <<>>
            ELSE LET n  == Len(l)
                     rs == SelectSeq(right,
                               LAMBDA r : \A c \in Range(on) : r[c] = l[n][c])
                 IN  inner(SubSeq(l, 1, n - 1))
                     \o [k \in 1..Len(rs) |-> [txt |-> l[n], pq |-> rs[k]]]
        orphans == SelectSeq(right, LAMBDA r :
                       \A i \in 1..Len(left) :
                           \E c \in Range(on) : r[c] # left[i][c])
    IN  inner(left)
        \o [k \in 1..Len(orphans) |->
               [txt |-> [c \in DOMAIN orphans[k] |-> NaN], pq |-> orphans[k]]]

\* the rows of pd.merge(left, right, on=on, how='inner'): for every left row
\* in order, its pairs with the right rows of the same key
RECURSIVE merge_inner(_, _, _)
merge_inner(left, right, on) ==
    IF left = <<>> THEN <<>>
    ELSE LET n  == Len(left)
             rs == SelectSeq(right,
                       LAMBDA r : \A c \in Range(on) : r[c] = left[n][c])
         IN  merge_inner(SubSeq(left, 1, n - 1), right, on)
             \o [k \in 1..Len(rs) |-> [txt |-> left[n], pq |-> rs[k]]]

\* variant of RowCountMismatch: only a shortfall is caught
RowCountShortfall(joined, txt) == Len(joined) < Len(txt.rows)

\* len(merged_comparison) != len(combined_txt)
RowCountMismatch(joined, txt) == Len(joined) # Len(txt.rows)

\* (~matches).sum() for the column
n_mismatch(joined, col) ==
    Cardinality({k \in 1..Len(joined) :
        IF is_float(col) THEN ~isclose(joined[k].txt[col], joined[k].pq[col])
        ELSE joined[k].txt[col] # joined[k].pq[col]})

RECURSIVE mismatch_count(_, _)
mismatch_count(joined, cols) ==
    IF cols = <<>> THEN 0
    ELSE n_mismatch(joined, Head(cols)) + mismatch_count(joined, Tail(cols))

NoReport ==
    [ret |-> FALSE, raised |-> FALSE, rowcount |-> FALSE, counts |-> <<>>,
     total |-> 0]

\* compare_dfs(combined_txt, merged_df, market_type, label, sort_cols): what
\* it returns and prints; raised when it ends in a KeyError
compare_dfs(combined_txt, merged_df, on) ==
    IF \E c \in Range(on) :
          c \notin Range(combined_txt.cols) \/ c \notin Range(merged_df.cols)
    THEN [NoReport EXCEPT !.raised = TRUE]
    ELSE LET joined     == merge_inner(combined_txt.rows, merged_df.rows, on)
             value_cols == SelectSeq(combined_txt.cols,
                                     LAMBDA c : c \notin Range(on))
         IN  IF RowCountMismatch(joined, combined_txt)
             THEN [NoReport EXCEPT !.rowcount = TRUE]
             ELSE IF \E c \in Range(value_cols) : c \notin Range(merged_df.cols)
             THEN [NoReport EXCEPT !.raised = TRUE]
             ELSE [NoReport EXCEPT
                     !.counts = [c \in Range(value_cols) |->
                                    n_mismatch(joined, c)],
                     !.total  = mismatch_count(joined, value_cols),
                     !.ret    = mismatch_count(joined, value_cols) = 0]

\* validate_year(market_type, year_dir, year_key)
validate_year(txts, archive) ==
    IF ~archive.exists THEN NoReport
    ELSE IF txts = <<>> THEN NoReport
    ELSE IF txt_dfs(txts) = <<>> THEN NoReport
    ELSE LET combined_txt ==
                 sort_values(drop_duplicates(concat(txt_dfs(txts))), sort_cols)
             yearly_pq == [cols |-> archive.cols, rows |-> archive.rows]
         IN  IF SortRaises(yearly_pq, sort_cols) THEN NoReport
             ELSE LET r == compare_dfs(combined_txt,
                               sort_values(drop_duplicates(yearly_pq), sort_cols),
                               sort_cols)
                  IN  IF r.raised THEN NoReport ELSE r

InitValidator ==
    /\ disk = <<>>
    /\ today = <<2021, 1, 6>>
    /\ run = "none"
    /\ yearsLeft = <<>>
    /\ queue = <<>>
    /\ job = NoJob
    /\ ever = {}
    /\ arrivals = 0
    /\ faults = 0
    /\ intr = NoIntr
    /\ exit_code = <<>>
    /\ \E txts \in TxtLists, archive \in Archives :
          call = [fn |-> "validate_year", pc |-> "called", txts |-> txts,
                  archive |-> archive, ret |-> NoReport]

\* validate_year returns
ReturnValidateYear ==
    /\ call.pc = "called"
    /\ call.fn = "validate_year"
    /\ call' = [call EXCEPT !.pc = "returned",
                            !.ret = validate_year(call.txts, call.archive)]
    /\ UNCHANGED <<disk, today, run, yearsLeft, queue, job, ever, arrivals,
                   faults, intr, exit_code>>

NextValidator == ReturnValidateYear

ValidatorSpec == InitValidator /\ [][NextValidator]_vars

----------------------------------------------------------------------------
(* Collector: single calls of fetch_minute_symbol.  An entry of a page is  *)
(* [time, price]; a time HH:MM is its ordinal in the day, so the order of  *)
(* the integers is the order of the zero-padded strings.                   *)
MaxPageRows == 2

MinuteEntries == [time : {1, 2}, price : {1, 2}]

\* what parse_minute_rows can return for a page
MinutePages == UNION {[1..n -> MinuteEntries] : n \in 0..MaxPageRows}

\* the loop over all_results filling unique_data: the first entry of every
\* time, in the order of the first occurrences
first_per_time(all_results) ==
    LET first(i) == \A j \in 1..(i - 1) : all_results[j].time # all_results[i].time
        idx == {i \in 1..Len(all_results) : first(i)}
        RECURSIVE pick(_)
        pick(n) == IF n = 0 THEN <<>>
                   ELSE IF n \in idx THEN Append(pick(n - 1), all_results[n])
                   ELSE pick(n - 1)
    IN  pick(Len(all_results))

\* [unique_data[key] for key in sorted(unique_data.keys())]
RECURSIVE sorted_by_time(_)
sorted_by_time(unique) ==
    IF unique = <<>> THEN <<>>
    ELSE LET m == CHOOSE i \in 1..Len(unique) :
                      \A j \in 1..Len(unique) : unique[i].time <= unique[j].time
         IN  <<unique[m]>> \o
             sorted_by_time([k \in 1..(Len(unique) - 1) |->
                                IF k < m THEN unique[k] ELSE unique[k + 1]])

InitMinute ==
    /\ disk = <<>>
    /\ today = <<2021, 1, 6>>
    /\ run = "none"
    /\ yearsLeft = <<>>
    /\ queue = <<>>
    /\ job = NoJob
    /\ ever = {}
    /\ arrivals = 0
    /\ faults = 0
    /\ intr = NoIntr
    /\ exit_code = <<>>
    /\ \E page1 \in MinutePages, page2 \in MinutePages,
          second \in {"ok", "status", "raises"}, last_page \in {1, 2} :
          call = [fn |-> "fetch_minute_symbol", pc |-> "called",
                  page1 |-> page1, page2 |-> page2, second |-> second,
                  last_page |-> last_page, all_results |-> <<>>, ret |-> <<>>]

MinuteUnchanged ==
    UNCHANGED <<disk, today, run, yearsLeft, queue, job, ever, arrivals,
                faults, intr, exit_code>>

\* all_results = await fetch_minute_page(.., 1, ..); if not all_results:
\* return []
MinuteFirstPage ==
    /\ call.fn = "fetch_minute_symbol"
    /\ call.pc = "called"
    /\ call' = [call EXCEPT !.all_results = call.page1,
                   !.pc = IF call.page1 = <<>> THEN "returned" ELSE "second"]
    /\ MinuteUnchanged

\* the second request of page 1: a status other than 200 and an exception
\* both return the entries of page 1 as they are
MinuteSecondRequest ==
    /\ call.fn = "fetch_minute_symbol"
    /\ call.pc = "second"
    /\ call' = IF call.second = "ok"
               THEN [call EXCEPT !.pc = "gather"]
               ELSE [call EXCEPT !.pc = "returned", !.ret = call.all_results]
    /\ MinuteUnchanged

\* the remaining pages are gathered (a page that fails is []), the entries
\* are deduplicated by time and returned sorted
MinuteGather ==
    /\ call.fn = "fetch_minute_symbol"
    /\ call.pc = "gather"
    /\ LET all == IF call.last_page > 1 THEN call.all_results \o call.page2
                  ELSE call.all_results
       IN  call' = [call EXCEPT !.pc = "returned", !.all_results = all,
                       !.ret = sorted_by_time(first_per_time(all))]
    /\ MinuteUnchanged

NextMinute == MinuteFirstPage \/ MinuteSecondRequest \/ MinuteGather

MinuteSpec == InitMinute /\ [][NextMinute]_vars

----------------------------------------------------------------------------
(* Reader: single calls of get_files_to_read on a dataset root.  Besides   *)
(* the file names of the root, <<0, y>> is <root>/y.parquet.  A year       *)
(* directory that is missing holds no file, so its test is not modelled.   *)
ReaderDays == {<<2020, 1, 1>>, <<2020, 1, 2>>, <<2020, 2, 1>>, <<2021, 1, 1>>}

\* start_dt.date() and end_dt.date()
ReaderDates == ReaderDays \cup {<<2020, 12, 31>>}

ReaderFiles ==
    ReaderDays
    \cup {<<2020, 1>>, <<2020, 2>>, <<2021, 1>>}
    \cup {<<2020>>, <<2021>>, <<0, 2020>>}

\* the days whose records a file of this name holds
WindowOf(f) ==
    {d \in ReaderDays :
        \/ f = d
        \/ Len(f) = 2 /\ f[1] # 0 /\ SubSeq(d, 1, 2) = f
        \/ Len(f) = 2 /\ f[1] = 0 /\ d[1] = f[2]
        \/ Len(f) = 1 /\ d[1] = f[1]}

\* the record of a day
DayRow(d) == Row(1, d[1] * 10000 + d[2] * 100 + d[3], 10)

\* a file holds the records of its days, merged
ReaderContent(f) ==
    Frame(SortRows([i \in 1..Cardinality(WindowOf(f)) |->
                       DayRow(sorted(WindowOf(f))[i])], sort_columns))

\* lines 63-85: the monthly file if it exists, else the daily files of the
\* month, sorted, whose date lies in the range
files_of_month(d, year, month, start_dt, end_dt) ==
    IF <<year, month>> \in DOMAIN d THEN << <<year, month>> >>
    ELSE SelectSeq(sorted({f \in DOMAIN d :
                              Len(f) = 3 /\ f[1] = year /\ f[2] = month}),
                   LAMBDA f : SeqLE(start_dt, f) /\ SeqLE(f, end_dt))

RECURSIVE files_of_months(_, _, _, _, _, _)
files_of_months(d, year, month, end_month, start_dt, end_dt) ==
    IF month > end_month THEN <<>>
    ELSE files_of_month(d, year, month, start_dt, end_dt)
         \o files_of_months(d, year, month + 1, end_month, start_dt, end_dt)

\* variant of files_of_year: no continue after the yearly file
files_of_year_and_below(d, year, start_dt, end_dt) ==
    LET start_month == IF year = start_dt[1] THEN start_dt[2] ELSE 1
        end_month   == IF year = end_dt[1] THEN end_dt[2] ELSE 12
        yearly      == IF <<0, year>> \in DOMAIN d THEN << <<0, year>> >>
                       ELSE IF <<year>> \in DOMAIN d THEN << <<year>> >>
                       ELSE <<>>
    IN  yearly \o files_of_months(d, year, start_month, end_month,
                                  start_dt, end_dt)

\* lines 41-61: the body of the loop over the years
files_of_year(d, year, start_dt, end_dt) ==
    LET start_month == IF year = start_dt[1] THEN start_dt[2] ELSE 1
        end_month   == IF year = end_dt[1] THEN end_dt[2] ELSE 12
    IN  IF <<0, year>> \in DOMAIN d THEN << <<0, year>> >>
        ELSE IF <<year>> \in DOMAIN d THEN << <<year>> >>
        ELSE files_of_months(d, year, start_month, end_month, start_dt, end_dt)

RECURSIVE files_of_years(_, _, _, _)
files_of_years(d, year, start_dt, end_dt) ==
    IF year > end_dt[1] THEN <<>>
    ELSE files_of_year(d, year, start_dt, end_dt)
         \o files_of_years(d, year + 1, start_dt, end_dt)

\* get_files_to_read(data_dir, start_dt, end_dt)
get_files_to_read(d, start_dt, end_dt) ==
    files_of_years(d, start_dt[1], start_dt, end_dt)

InitReader ==
    /\ \E fs \in SUBSET ReaderFiles : disk = [f \in fs |-> ReaderContent(f)]
    /\ today = <<2021, 1, 6>>
    /\ run = "none"
    /\ yearsLeft = <<>>
    /\ queue = <<>>
    /\ job = NoJob
    /\ ever = {}
    /\ arrivals = 0
    /\ faults = 0
    /\ intr = NoIntr
    /\ exit_code = <<>>
    /\ \E start_dt \in ReaderDates, end_dt \in ReaderDates :
          call = [fn |-> "get_files_to_read", pc |-> "called",
                  start_dt |-> start_dt, end_dt |-> end_dt, ret |-> <<>>]

\* get_files_to_read returns
ReturnFilesToRead ==
    /\ call.pc = "called"
    /\ call.fn = "get_files_to_read"
    /\ call' = [call EXCEPT !.pc = "returned",
                   !.ret = get_files_to_read(disk, call.start_dt, call.end_dt)]
    /\ UNCHANGED <<disk, today, run, yearsLeft, queue, job, ever, arrivals,
                   faults, intr, exit_code>>

NextReader == ReturnFilesToRead

ReaderSpec == InitReader /\ [][NextReader]_vars

----------------------------------------------------------------------------
(* Collector: one call of collect_day_data (fetch_kr1d.py) or of           *)
(* collect_minute_data (fetch_kr1m.py).  An item of the queue is the index *)
(* of its symbol in the list; call holds the locals of the coroutine and   *)
(* of its worker tasks.                                                    *)
MaxSymbols == 2

MaxConcurrency == 2

Collections == {"day", "minute"}

SymbolLists == UNION {[1..n -> {"A", "B"}] : n \in 0..MaxSymbols}

\* a worker task waiting in queue.get()
IdleWorker == [pc |-> "get", item |-> 0, intent |-> "none"]

InitCollector ==
    /\ disk = <<>>
    /\ today = <<2021, 1, 6>>
    /\ run = "none"
    /\ yearsLeft = <<>>
    /\ queue = <<>>
    /\ job = NoJob
    /\ ever = {}
    /\ arrivals = 0
    /\ faults = 0
    /\ intr = NoIntr
    /\ exit_code = <<>>
    /\ \E symbols \in SymbolLists, concurrency \in 0..MaxConcurrency,
          kind \in Collections :
          call = [fn |-> "collect", kind |-> kind, pc |-> "join",
                  symbols |-> symbols, concurrency |-> concurrency,
                  queue |-> [i \in 1..Len(symbols) |-> i],
                  unfinished |-> Len(symbols),
                  permits |-> concurrency,
                  lock |-> 0,
                  workers |-> [w \in 1..concurrency |-> IdleWorker],
                  all_data |-> <<>>,
                  fetched |-> [i \in 1..Len(symbols) |-> 0],
                  done |-> [i \in 1..Len(symbols) |-> 0]]

CollectorUnchanged ==
    UNCHANGED <<disk, today, run, yearsLeft, queue, job, ever, arrivals,
                faults, intr, exit_code>>

\* symbol = await queue.get()
WorkerGet(w) ==
    /\ call.workers[w].pc = "get"
    /\ call.queue # <<>>
    /\ call' = [call EXCEPT !.queue = Tail(@),
                   !.workers[w] = [pc |-> "sem", item |-> Head(call.queue),
                                   intent |-> "none"]]
    /\ CollectorUnchanged

\* async with semaphore: the request of the symbol is sent
WorkerAcquire(w) ==
    /\ call.workers[w].pc = "sem"
    /\ call.permits > 0
    /\ call' = [call EXCEPT !.permits = @ - 1,
                   !.fetched[call.workers[w].item] = @ + 1,
                   !.workers[w].pc = "fetch"]
    /\ CollectorUnchanged

\* the fetch ends: with a result, with a result whose numbers int() will not
\* parse, with nothing, or by raising
WorkerFetched(w) ==
    /\ call.workers[w].pc = "fetch"
    /\ \E outcome \in {"data", "bad", "none", "raises"} :
          call' = [call EXCEPT !.permits = @ + 1,
              !.workers[w].pc =
                  IF outcome \in {"data", "bad"} \/ call.kind = "minute"
                  THEN "lock" ELSE "task_done",
              !.workers[w].intent =
                  IF outcome = "data" THEN "append"
                  ELSE IF outcome = "bad" THEN "parse"
                  ELSE IF call.kind = "minute" THEN "count" ELSE "none"]
    /\ CollectorUnchanged

\* async with lock
WorkerLock(w) ==
    /\ call.workers[w].pc = "lock"
    /\ call.lock = 0
    /\ call' = [call EXCEPT !.lock = w, !.workers[w].pc = "locked"]
    /\ CollectorUnchanged

\* the body under the lock: all_data.append(..), or int() raises and the
\* handler is entered (which takes the lock again in collect_minute_data),
\* or processed_count += 1; the lock is released
WorkerLocked(w) ==
    /\ call.workers[w].pc = "locked"
    /\ call' = [call EXCEPT !.lock = 0,
           !.all_data = IF call.workers[w].intent = "append"
                        THEN Append(@, call.workers[w].item) ELSE @,
           !.workers[w].pc =
               IF call.workers[w].intent = "parse" /\ call.kind = "minute"
               THEN "lock" ELSE "task_done",
           !.workers[w].intent =
               IF call.workers[w].intent = "parse" /\ call.kind = "minute"
               THEN "count" ELSE "none"]
    /\ CollectorUnchanged

\* finally: queue.task_done()
WorkerTaskDone(w) ==
    /\ call.workers[w].pc = "task_done"
    /\ call' = [call EXCEPT !.unfinished = @ - 1,
                   !.done[call.workers[w].item] = @ + 1,
                   !.workers[w] = IdleWorker]
    /\ CollectorUnchanged

\* await queue.join() completes; for w in workers: w.cancel()
CollectorJoined ==
    /\ call.pc = "join"
    /\ call.unfinished = 0
    /\ call' = [call EXCEPT !.pc = "returned",
                   !.workers = [w \in 1..call.concurrency |->
                                   [call.workers[w] EXCEPT !.pc = "cancelled"]]]
    /\ CollectorUnchanged

NextCollector ==
    \/ \E w \in 1..MaxConcurrency :
          /\ call.fn = "collect"
          /\ call.pc = "join"
          /\ w <= call.concurrency
          /\ \/ WorkerGet(w)
             \/ WorkerAcquire(w)
             \/ WorkerFetched(w)
             \/ WorkerLock(w)
             \/ WorkerLocked(w)
             \/ WorkerTaskDone(w)
    \/ call.fn = "collect" /\ CollectorJoined

\* the event loop runs a task that can run
CollectorSpec ==
    InitCollector /\ [][NextCollector]_vars /\ WF_vars(NextCollector)

----------------------------------------------------------------------------
(* Converter: calls of convert_file on one raw day file and the shard next *)
(* to it.  disk is <<>> while the shard is missing and <<shard>> else; a   *)
(* raw volume is held in tenths, a price in millionths.                    *)
MaxCalls == 3

\* rows of the raw file: symbol, price, volume, time
RawLines ==
    [symbol : {1}, price : {1000000}, volume : {100, 105}, time : {1, 2}]

\* the raw file; read_csv raises on the file without a row
RawFilesOf == UNION {[1..n -> RawLines] : n \in 0..MaxRows}

\* Series.round() of a value in tenths: half to even
round(v) ==
    LET q == v \div 10
        r == v % 10
    IN  IF r < 5 THEN q
        ELSE IF r > 5 THEN q + 1
        ELSE IF q % 2 = 0 THEN q ELSE q + 1

\* lines 109-121 / 46-56: the frame of the raw file
raw_frame(raw) ==
    [cols |-> ValCols,
     rows |-> [i \in 1..Len(raw) |->
                  VRow(raw[i].symbol, raw[i].time, raw[i].price,
                       round(raw[i].volume))]]

\* bytes that are no Parquet file
Unreadable == [readable |-> FALSE, cols |-> <<>>, rows |-> <<>>]

\* rows a shard found next to the raw file may hold
ShardRows ==
    {VRow(1, t, p, 10) : t \in {1, 2}, p \in {1000000, 1000005, 1100000}}
    \cup {VRow(1, 1, 1000000, 11)}

\* what the shard may hold before the first call: bytes that are no Parquet
\* file, rows of the schema, the columns in another order
ShardStates ==
    {Unreadable}
    \cup UNION {{[readable |-> TRUE, cols |-> ValCols, rows |-> rs] :
                    rs \in [1..n -> ShardRows]} : n \in 0..MaxRows}
    \cup {[readable |-> TRUE, cols |-> <<"symbol", "price", "volume", "dt">>,
           rows |-> <<VRow(1, 1, 1000000, 10)>>]}

\* what damage makes of a shard: no Parquet file, its last row lost, the
\* price of its first row changed
Damaged(shard) ==
    IF shard.rows = <<>> THEN {Unreadable}
    ELSE {Unreadable,
          [shard EXCEPT !.rows = SubSeq(@, 1, Len(@) - 1)],
          [shard EXCEPT !.rows[1].price = 1100000]}

\* np.allclose on one pair of values of an int column
isclose_int(a, b) == fabs(a - b) <= fabs(b) \div 100000

\* variant of validate_parquet: the values are not compared
validate_parquet_shape(raw, shard) ==
    /\ raw # <<>>
    /\ shard.readable
    /\ Len(raw_frame(raw).rows) = Len(shard.rows)
    /\ raw_frame(raw).cols = shard.cols

\* validate_parquet(txt_file, parquet_file)
validate_parquet(raw, shard) ==
    /\ raw # <<>>
    /\ shard.readable
    /\ Len(raw_frame(raw).rows) = Len(shard.rows)
    /\ raw_frame(raw).cols = shard.cols
    /\ \A i \in 1..Len(shard.rows) :
          LET t == raw_frame(raw).rows[i]
              q == shard.rows[i]
          IN  /\ t.symbol = q.symbol
              /\ t.dt = q.dt
              /\ isclose(t.price, q.price)
              /\ isclose_int(t.volume, q.volume)

InitConverter ==
    /\ disk \in {<<>>} \cup {<<sh>> : sh \in ShardStates}
    /\ today = <<2021, 1, 6>>
    /\ run = "none"
    /\ yearsLeft = <<>>
    /\ queue = <<>>
    /\ job = NoJob
    /\ ever = {}
    /\ arrivals = 0
    /\ faults = 0
    /\ intr = NoIntr
    /\ exit_code = <<>>
    /\ \E raw \in RawFilesOf :
          call = [fn |-> "convert_file", raw |-> raw, n |-> 0, ret |-> FALSE,
                  skipped |-> FALSE]

\* convert_file(txt_file) on the raw file
ConvertFile ==
    /\ call.fn = "convert_file"
    /\ call.n < MaxCalls
    /\ IF disk # <<>> /\ validate_parquet(call.raw, disk[1])
       THEN /\ disk' = disk
            /\ call' = [call EXCEPT !.n = @ + 1, !.ret = TRUE,
                                    !.skipped = TRUE]
       ELSE IF call.raw = <<>>
       THEN /\ disk' = disk
            /\ call' = [call EXCEPT !.n = @ + 1, !.ret = FALSE,
                                    !.skipped = FALSE]
       ELSE /\ disk' = << [readable |-> TRUE,
                           cols |-> raw_frame(call.raw).cols,
                           rows |-> raw_frame(call.raw).rows] >>
            /\ call' = [call EXCEPT !.n = @ + 1, !.ret = TRUE,
                                    !.skipped = FALSE]
    /\ UNCHANGED <<today, run, yearsLeft, queue, job, ever, arrivals, faults,
                   intr, exit_code>>

\* the bytes of the shard are damaged between two calls
DamageShard ==
    /\ call.fn = "convert_file"
    /\ call.n > 0
    /\ disk # <<>>
    /\ faults < MaxFaults
    /\ \E sh \in Damaged(disk[1]) : disk' = <<sh>>
    /\ faults' = faults + 1
    /\ call' = [call EXCEPT !.n = 0, !.skipped = FALSE]
    /\ UNCHANGED <<today, run, yearsLeft, queue, job, ever, arrivals, intr,
                   exit_code>>

NextConverter == ConvertFile \/ DamageShard

ConverterSpec == InitConverter /\ [][NextConverter]_vars

----------------------------------------------------------------------------
(* Vocabulary of the properties *)
Target == output_file(job.key)

Inputs == Range(job.files)

Returned == job.pc = "done"

Count(rows, r) == Cardinality({i \in 1..Len(rows) : rows[i] = r})

\* the same rows, each as often, in any order
SameBag(a, b) ==
    /\ Len(a) = Len(b)
    /\ \A i \in 1..Len(a) : Count(a, a[i]) = Count(b, a[i])

\* the frames the files fs held on the disk d, in sorted(files) order
FramesOf(d, fs) == [k \in 1..Len(fs) |-> d[fs[k]]]

RECURSIVE SumLen(_)
SumLen(dfs) ==
    IF dfs = <<>> THEN 0
    ELSE Len(Head(dfs).rows) + SumLen(Tail(dfs))

\* rows of the concatenation that repeat an earlier row
DuplicateRows(dfs) ==
    LET all == concat(dfs).rows
    IN  Cardinality({i \in 1..Len(all) : \E j \in 1..(i - 1) : all[j] = all[i]})

\* every input shard is on disk as it was when the job started
InputsUntouched ==
    \A f \in Inputs : f \in DOMAIN disk /\ disk[f] = job.pre[f]

InputsDeleted == \A f \in Inputs : f \notin DOMAIN disk

\* the job running now is the rerun of the killed job, from the state the
\* kill left
IsRerun ==
    /\ intr.pc # "none"
    /\ job.tier = intr.tier
    /\ job.key = intr.key
    /\ job.pre = intr.at

----------------------------------------------------------------------------
(* C1 *)
\* C1: in every step that deletes an input shard of the running job, the
\* job has passed verification: its candidate is on disk and, re-read, holds
\* the rows of the merge buffer.
C1_DeleteAfterVerify ==
    [][ \A f \in DOMAIN disk \ DOMAIN disk' :
           f # Target =>
              /\ f \in Inputs
              /\ job.pc = "cleanup"
              /\ job.verified
              /\ Target \in DOMAIN disk
              /\ disk[Target].cols = job.buf.cols
              /\ SameBag(disk[Target].rows, job.buf.rows) ]_vars

C1_Witness ==
    /\ job.pc = "cleanup"
    /\ job.i > 1
    /\ job.files[1] \notin DOMAIN disk

(* C2 *)
\* C2: with no I/O failure and no killed run, after each batch run every
\* row a delivered shard has held is still in some file on disk.
C2_NoDataLost ==
    (faults = 0 /\ run = "none") => ever \subseteq RowsOn(disk)

(* C3 *)
\* C3: when a job returns after a failure at one single step, the files on
\* disk hold every row the files held when the job started.
C3_FailureKeepsRecords ==
    (Returned /\ job.nfail = 1 /\ faults = 1)
        => RowsOn(job.pre) \subseteq RowsOn(disk)

C5_Commit ==
    (Returned /\ job.verified /\ job.failedAt # "cleanup") =>
        /\ job.result = "True"
        /\ InputsDeleted
        /\ Target \in DOMAIN disk
        /\ Len(disk[Target].rows) =
              SumLen(FramesOf(job.pre, job.files))
                 - DuplicateRows(FramesOf(job.pre, job.files))

C5_Witness ==
    /\ Returned
    /\ job.result = "True"
    /\ Len(job.files) = 2
    /\ DuplicateRows(FramesOf(job.pre, job.files)) > 0

(* C6 *)
\* C6: at return (here: of a job in which at most one step failed) the
\* dataset root is either as it was before the job or fully committed: all
\* inputs deleted, the target holding the merged rows, every other file as
\* before.
C6_Atomic ==
    (Returned /\ job.nfail <= 1) =>
        \/ disk = job.pre
        \/ /\ InputsDeleted
           /\ Target \in DOMAIN disk
           /\ disk[Target].cols = job.buf.cols
           /\ SameBag(disk[Target].rows, job.buf.rows)
           /\ DOMAIN disk = (DOMAIN job.pre \ Inputs) \cup {Target}
           /\ \A n \in DOMAIN disk \ {Target} : disk[n] = job.pre[n]

(* C7 *)
\* C7: a rerun of a job killed after it had deleted some but not all input
\* shards ends with a target that holds every row of the full input set.
C7_RerunAfterPartialCommit ==
    (/\ Returned
     /\ job.result = "True"
     /\ IsRerun
     /\ intr.pc = "cleanup"
     /\ intr.i > 1
     /\ intr.i <= Len(intr.files))
        => /\ Target \in DOMAIN disk
           /\ Range(Buffer(intr.tier, FramesOf(intr.pre, intr.files)).rows)
                 \subseteq Range(disk[Target].rows)

(* C8 *)
\* C8: between the write of the candidate and its verification every input
\* shard is on disk as before the job; and a rerun of a job killed at that
\* point that commits leaves the inputs deleted and the target with the
\* rows an uninterrupted run merges from those inputs.
C8_KillBeforeVerify ==
    /\ job.pc = "verify" => InputsUntouched
    /\ (Returned /\ job.result = "True" /\ IsRerun /\ intr.pc = "verify")
          => /\ InputsDeleted
             /\ Target \in DOMAIN disk
             /\ LET whole == Buffer(intr.tier,
                                    FramesOf(intr.pre, intr.files))
                IN  /\ disk[Target].cols = whole.cols
                    /\ SameBag(disk[Target].rows, whole.rows)

C8_Witness ==
    /\ Returned
    /\ job.result = "True"
    /\ IsRerun
    /\ intr.pc = "verify"
    /\ Len(job.files) = 2

(* C9 *)
\* C9: when a deletion of an input shard fails after verification passed,
\* the job still counts as committed: the target stays on disk and the job
\* does not report failure.
C9_CleanupError ==
    (Returned /\ job.verified /\ job.failedAt = "cleanup") =>
        /\ Target \in DOMAIN disk
        /\ job.result = "True"

(* C10 *)
\* the candidate differs from the buffer by a missing row, an extra row, a
\* changed cell or a changed column set
Discrepant(saved, buf) ==
    \/ Len(saved.rows) # Len(buf.rows)
    \/ saved.cols # buf.cols
    \/ \E r \in Range(saved.rows) : r \notin Range(buf.rows)

InKeyOrder(rows, by) ==
    \A i \in 1..(Len(rows) - 1) : ~KeyLess(rows[i + 1], rows[i], by)

C12_Idempotent ==
    (Returned /\ job.result = "True" /\ Target \in DOMAIN job.pre) =>
        LET again == Resorted(job.tier, disk[Target])
            first == Resorted(job.tier, job.pre[Target])
            alone == Buffer(job.tier, FramesOf(job.pre, job.files))
        IN  /\ again = alone
            /\ (first = alone) => (again = first)

C12_Witness ==
    /\ Returned
    /\ job.result = "True"
    /\ Target \in DOMAIN job.pre
    /\ Resorted(job.tier, job.pre[Target]) =
          Buffer(job.tier, FramesOf(job.pre, job.files))

(* C13 *)
\* days from 0001-01-01 to the date, counted without stepping day by day
DaysBeforeMonth == <<0, 31, 59, 90, 120, 151, 181, 212, 243, 273, 304, 334>>

Ordinal(dt) ==
    LET y == dt[1] - 1
    IN  365 * y + (y \div 4) - (y \div 100) + (y \div 400)
        + DaysBeforeMonth[dt[2]]
        + (IF dt[2] > 2 /\ IsLeap(dt[1]) THEN 1 ELSE 0)
        + dt[3]

\* first day of the month after month m of year y
FollowingMonth(y, m) == IF m = 12 THEN <<y + 1, 1, 1>> ELSE <<y, m + 1, 1>>

\* C13: for the key YYYY-MM of a calendar month, any current date and any
\* wait N, is_safe_to_merge returns true exactly when today is at least N
\* days after the first day of the following month (December followed by
\* January of the next year); so it is false in the month itself and for
\* every later month, false on the day before the cutoff and true on the
\* cutoff day.
C13_MonthlyGate ==
    (call.fn = "is_safe_to_merge" /\ call.pc = "returned") =>
        \A y \in GateYears, m \in 1..12 :
            call.key = MonthKeyStr(y, m) =>
                LET cutoff == Ordinal(FollowingMonth(y, m)) + call.wait
                IN  /\ call.ret = (Ordinal(today) >= cutoff)
                    /\ SeqLE(<<today[1], today[2]>>, <<y, m>>) => ~call.ret
                    /\ Ordinal(today) = cutoff - 1 => ~call.ret
                    /\ Ordinal(today) = cutoff => call.ret

C13_Witness ==
    /\ call.fn = "is_safe_to_merge"
    /\ call.pc = "returned"
    /\ call.key = MonthKeyStr(2020, 12)
    /\ call.wait = days_wait
    /\ today = <<2021, 1, 6>>
    /\ call.ret

(* C14 *)
\* C14: for the key YYYY of a year and any current date, is_past_year
\* returns true exactly when that year is less than the year of today.
C14_YearlyGate ==
    (call.fn = "is_past_year" /\ call.pc = "returned") =>
        \A y \in GateYears :
            call.key = YearKeyStr(y) => (call.ret = (y < today[1]))

C14_Witness ==
    /\ call.fn = "is_past_year"
    /\ call.pc = "returned"
    /\ call.key = YearKeyStr(2020)
    /\ today = <<2021, 1, 1>>
    /\ call.ret

(* C15 *)
\* the text is YYYY-MM with MM in 01..12, or YYYY
IsMonthKey(s) ==
    /\ Len(s) = 7
    /\ \A i \in {1, 2, 3, 4, 6, 7} : IsDigit(s[i])
    /\ s[5] = "-"
    /\ 10 * DigitValue(s[6]) + DigitValue(s[7]) \in 1..12

IsYearKey(s) == Len(s) = 4 /\ \A i \in 1..4 : IsDigit(s[i])

\* C15: for a key that is not a calendar month is_safe_to_merge returns
\* false, and for a key that is not a year is_past_year returns false.
C15_MalformedKey ==
    call.pc = "returned" =>
        /\ (call.fn = "is_safe_to_merge" /\ ~IsMonthKey(call.key))
              => ~call.ret
        /\ (call.fn = "is_past_year" /\ ~IsYearKey(call.key))
              => ~call.ret

(* C16 *)
\* the window keys a run of the tier can meet
WindowKeys(tier) ==
    {SubSeq(n, 1, IF tier = "month" THEN 2 ELSE 1) : n \in DayNames}

\* the files of a window among the files of d: its shards and its target
WindowFiles(key, d) ==
    {n \in DOMAIN d :
        \/ n = key
        \/ Len(n) = Len(key) + 1 /\ SubSeq(n, 1, Len(key)) = key}

\* the file is created, removed or rewritten by the step
Touched(f) ==
    \/ f \notin DOMAIN disk
    \/ f \notin DOMAIN disk'
    \/ disk[f] # disk'[f]

\* C16: a step starts a job for a window only in a run whose gate is true
\* for that window, and no step of a run creates, rewrites or removes a
\* file of a window of the running tier whose gate is false.
C16_GateFirst ==
    [][ /\ (job'.pc = "read" /\ job.pc # "read") =>
              /\ run \in {"month", "year"}
              /\ run' = run
              /\ job'.tier = run
              /\ Gate(run, job'.key, today)
        /\ run # "none" =>
              \A key \in WindowKeys(run) :
                 ~Gate(run, key, today) =>
                    \A f \in WindowFiles(key, disk) \cup WindowFiles(key, disk') :
                       ~Touched(f) ]_vars

C16_Witness ==
    /\ run = "month"
    /\ queue = <<>>
    /\ yearsLeft = <<>>
    /\ job = NoJob
    /\ <<2020, 1>> \in DOMAIN disk
    /\ <<2020, 12, 1>> \in DOMAIN disk
    /\ ~Gate("month", <<2020, 12>>, today)

(* C17 *)
\* C17: whatever became of the job before it, the batch takes the windows
\* still in its iteration one by one: the next one is skipped or its job is
\* started with the files the scan grouped for it; a run ends only when no
\* window is left; a running job, failing or not, touches no file of a
\* window still to come; and a job in which no step of its own failed
\* commits the merge of its own shards.
C17_FailureIsLocal ==
    [][ /\ (queue # <<>> /\ queue' # queue /\ faults' = faults) =>
              /\ run' = run
              /\ queue' = Tail(queue)
              /\ disk' = disk
              /\ job' = IF Gate(run, Head(queue).key, today)
                        THEN [NoJob EXCEPT
                                 !.pc = "read", !.tier = run,
                                 !.key = Head(queue).key,
                                 !.files = sorted(Head(queue).files),
                                 !.pre = disk]
                        ELSE NoJob
        /\ (run # "none" /\ run' = "none" /\ faults' = faults) =>
              /\ queue = <<>>
              /\ yearsLeft = <<>>
        /\ Running =>
              \A k \in 1..Len(queue) :
                 \A f \in WindowFiles(queue[k].key, disk)
                             \cup WindowFiles(queue[k].key, disk') :
                    ~Touched(f)
        /\ (Returned /\ run # "none" /\ job.nfail = 0) =>
              /\ job.result = "True"
              /\ InputsDeleted
              /\ Target \in DOMAIN disk
              /\ Resorted(job.tier, disk[Target]) =
                    Buffer(job.tier, FramesOf(job.pre, job.files)) ]_vars

C17_Witness ==
    /\ run = "month"
    /\ Returned
    /\ job.key = <<2020, 12>>
    /\ job.result = "True"
    /\ Gate("month", <<2020, 1>>, today)
    /\ \E n \in DOMAIN disk : Len(n) = 3 /\ SubSeq(n, 1, 2) = <<2020, 1>>

(* C18 *)
\* the step ends a batch process: main() returns or the process dies
ProcessEnds ==
    \/ run # "none" /\ run' = "none"
    \/ run = "none" /\ run' = "none" /\ exit_code' # <<>> /\ job' = NoJob
          /\ disk' = disk /\ arrivals' = arrivals /\ today' = today

\* the step is a top-level failure: the process is killed, the dependency
\* check fails or an exception leaves main()
TopLevelFails == faults' # faults

\* data_dir does not exist
NoRoot == disk = <<>> /\ arrivals = 0

\* C18 as stated: a batch process ends with exit status 0 exactly when it
\* met no top-level failure, a dataset root that does not exist being one.
C18_ExitStatusAsStated ==
    [][ ProcessEnds =>
           ((exit_code' = <<0>>) = ~(TopLevelFails \/ NoRoot)) ]_vars

\* C18 amended: a batch process ends with exit status 0 exactly when main()
\* returns, which it does whatever windows were skipped and whatever jobs
\* failed, and also when the dataset root does not exist; the status is not
\* 0 when the process is killed, the dependency check fails or an
\* exception leaves main().
C18_ExitStatus ==
    [][ ProcessEnds =>
           /\ (exit_code' = <<0>>) = ~TopLevelFails
           /\ (NoRoot /\ ~TopLevelFails) => exit_code' = <<0>> ]_vars

C18_Witness ==
    /\ run = "none"
    /\ exit_code = <<0>>
    /\ job.pc = "done"
    /\ job.result = "False"
    /\ job.failedAt = "compare"

(* C19 *)
\* C19: when a job returns after the read of a shard or the write of the
\* candidate failed (here: the only failure there has been), every input
\* shard is as before the job, no candidate is left at the target path, and
\* a target that existed before the job is unchanged.
C19_ReadErrorAborts ==
    (/\ Returned
     /\ job.failedAt \in {"read", "write"}
     /\ job.nfail = 1
     /\ faults = 1) =>
        /\ InputsUntouched
        /\ job.result = "False"
        /\ IF Target \in DOMAIN job.pre
           THEN Target \in DOMAIN disk /\ disk[Target] = job.pre[Target]
           ELSE Target \notin DOMAIN disk

(* C20 *)
\* none of the SortKey columns is a column of the frame
SortKeyAbsent(df) == \A c \in Range(sort_columns) : c \notin Range(df.cols)

\* C20: in both tiers a job whose merged data has none of the SortKey
\* columns returns True with its inputs deleted and the target present.
C20_MissingSortKey ==
    (Returned /\ SortKeyAbsent(concat(FramesOf(job.pre, job.files)))) =>
        /\ job.result = "True"
        /\ InputsDeleted
        /\ Target \in DOMAIN disk

(* C21 *)
\* the two rows have the same value in every SortKey column
SameSortKey(a, b) == \A c \in Range(sort_columns) : a[c] = b[c]

\* C21: after a job returned True the target holds no row twice, holds
\* every row of the input shards (as they were before the job) once, however
\* many shards held it, and so keeps both of two input rows that differ in
\* a column, also when they differ in a value column only.
C21_FullRowDedup ==
    (Returned /\ job.result = "True") =>
        LET all == concat(FramesOf(job.pre, job.files)).rows
            t   == disk[Target].rows
        IN  /\ \A i, j \in 1..Len(t) : i # j => t[i] # t[j]
            /\ \A k \in 1..Len(all) : Count(t, all[k]) = 1
            /\ \A k, l \in 1..Len(all) :
                  all[k] # all[l] =>
                      \E i, j \in 1..Len(t) :
                          i # j /\ t[i] = all[k] /\ t[j] = all[l]

\* a job of two overlapping shards returned True: a row that both shards
\* held is in the target once, and two rows with one SortKey and different
\* values are both in the target
C21_Witness ==
    /\ Returned /\ job.result = "True"
    /\ Len(job.files) = 2
    /\ LET S == FramesOf(job.pre, job.files)
           t == disk[Target].rows
       IN  /\ \E r \in Range(S[1].rows) \cap Range(S[2].rows) : Count(t, r) = 1
           /\ \E i, j \in 1..Len(t) : t[i] # t[j] /\ SameSortKey(t[i], t[j])

(* C22 *)
\* C22: after a job returned True no two rows of the target have the same
\* SortKey value.
C22_SortKeyUnique ==
    (Returned /\ job.result = "True" /\ ~SortKeyAbsent(disk[Target])) =>
        LET t == disk[Target].rows
        IN  \A i, j \in 1..Len(t) : i # j => ~SameSortKey(t[i], t[j])

C24_Deterministic ==
    /\ Range(job.files) = Range(call.files)
    /\ \A i, j \in 1..Len(job.files) :
          i < j => SeqLess(job.files[i], job.files[j])
    /\ \A fs \in Orderings(Range(call.files)) :
          LET b == Buffer(job.tier, FramesOf(job.pre, sorted_files(fs)))
          IN  /\ job.pc \in {"write", "verify", "cleanup"} => job.buf = b
              /\ (Returned /\ job.result = "True") => disk[Target] = b

\* a job returned True that was given its two files in descending order,
\* and loading them in the order given would have made another target
C24_Witness ==
    /\ Returned /\ job.result = "True"
    /\ Len(call.files) = 2
    /\ SeqLess(call.files[2], call.files[1])
    /\ Buffer(job.tier, FramesOf(job.pre, call.files)) # disk[Target]

(* C25 *)
\* C25: from the call of a job on, whatever way it ends, the target is the
\* file <year>/<key>.parquet of the job's window and is none of its input
\* shards; an input shard is on disk as it was before the job or is gone,
\* never rewritten; every file that is neither the target nor an input shard
\* is on disk as it was before the job, and no such file has appeared.
C25_Frame ==
    job.pc # "idle" =>
        /\ Target = job.key
        /\ Len(Target) = (IF job.tier = "month" THEN 2 ELSE 1)
        /\ Target \notin Inputs
        /\ Inputs \subseteq DOMAIN job.pre
        /\ \A f \in Inputs : f \in DOMAIN disk => disk[f] = job.pre[f]
        /\ \A f \in (DOMAIN disk \cup DOMAIN job.pre) \ (Inputs \cup {Target}) :
              /\ f \in DOMAIN disk
              /\ f \in DOMAIN job.pre
              /\ disk[f] = job.pre[f]

\* a job returned True on a disk that holds a file of another window: the
\* target was created, the inputs are gone, the other file is as it was
C25_Witness ==
    /\ Returned /\ job.result = "True"
    /\ Target \notin DOMAIN job.pre
    /\ Target \in DOMAIN disk
    /\ InputsDeleted
    /\ \E f \in (DOMAIN disk \cap DOMAIN job.pre) \ {Target} :
          disk[f] = job.pre[f]

(* C26 *)
\* the name is YYYY-MM-DD.parquet / YYYY-MM.parquet, Y, M and D being digits
NamedDay(f) ==
    /\ Len(f) = 10 + Len(Parquet)
    /\ \A i \in {1, 2, 3, 4, 6, 7, 9, 10} : IsDigit(f[i])
    /\ f[5] = "-" /\ f[8] = "-"
    /\ SubSeq(f, 11, Len(f)) = Parquet

NamedMonth(f) ==
    /\ Len(f) = 7 + Len(Parquet)
    /\ \A i \in {1, 2, 3, 4, 6, 7} : IsDigit(f[i])
    /\ f[5] = "-"
    /\ SubSeq(f, 8, Len(f)) = Parquet

\* the path is in the group of the key k and in no other group
InGroupOnly(groups, p, k) ==
    /\ k \in DOMAIN groups
    /\ \A g \in DOMAIN groups : p \in groups[g] <=> g = k

InNoGroup(groups, p) == \A g \in DOMAIN groups : p \notin groups[g]

\* the paths of the files in the directories of the root
PathsOf(tree) ==
    UNION {{<<d, f>> : f \in tree[d].files} : d \in DOMAIN tree}

\* C26: get_monthly_groups puts every file named YYYY-MM-DD.parquet of the
\* year directory in the group of its YYYY-MM prefix and in no other, and
\* get_yearly_groups every file named YYYY-MM.parquet of a directory with a
\* numeric name in the group of its YYYY prefix and in no other; every other
\* file is in no group; a missing year directory gives no group.
C26_Partition ==
    call.pc = "returned" =>
        /\ call.fn = "get_monthly_groups" =>
              /\ str(call.year) \notin DOMAIN disk => call.ret = <<>>
              /\ \A p \in PathsOf(disk) :
                    IF p[1] = str(call.year) /\ NamedDay(p[2])
                    THEN InGroupOnly(call.ret, p, SubSeq(p[2], 1, 7))
                    ELSE InNoGroup(call.ret, p)
        /\ call.fn = "get_yearly_groups" =>
              \A p \in PathsOf(disk) :
                  IF /\ disk[p[1]].dir
                     /\ \A i \in 1..Len(p[1]) : IsDigit(p[1][i])
                     /\ NamedMonth(p[2])
                  THEN InGroupOnly(call.ret, p, SubSeq(p[2], 1, 4))
                  ELSE InNoGroup(call.ret, p)

(* C27 *)
\* the window is discovered and waits for its turn
InQueue(w) == \E k \in 1..Len(queue) : queue[k].key = w

\* the positions a job can move to from the position pc
PcAfter(pc) ==
    CASE pc = "read"    -> {"write", "except", "done"}
      [] pc = "write"   -> {"verify", "except"}
      [] pc = "verify"  -> {"cleanup", "except"}
      [] pc = "cleanup" -> {"cleanup", "except", "done"}
      [] pc = "except"  -> {"done"}
      [] OTHER          -> {"idle", "read"}

\* one step of the window state machine
WindowStep ==
    /\ queue' # queue =>
          \/ queue = <<>> /\ ~Running
          \/ /\ queue # <<>>
             /\ ~Running
             /\ queue' = Tail(queue)
             /\ IF Gate(run, Head(queue).key, today)
                THEN /\ job'.pc = "read"
                     /\ job'.key = Head(queue).key
                     /\ job'.tier = run
                ELSE job' = NoJob
    /\ (job'.pc = "read" /\ job.pc # "read") =>
          /\ queue # <<>>
          /\ queue' = Tail(queue)
          /\ Head(queue).key = job'.key
          /\ Gate(run, job'.key, today)
    /\ job' # job =>
          /\ job'.pc \in PcAfter(job.pc)
          /\ Running => (job'.key = job.key /\ job'.tier = job.tier)
    /\ (job'.pc = "cleanup" /\ job.pc = "verify") =>
          /\ Target \in DOMAIN disk
          /\ Verified(job.tier, job.buf, disk[Target])
    /\ (job'.pc = "done" /\ job.pc # "done") =>
          IF job.pc = "cleanup"
          THEN job.verified /\ job'.result = "True"
          ELSE job'.result = "False"

\* C27: every step of a run moves a window along DISCOVERED -> SKIPPED (gate
\* false, no job) or DISCOVERED -> job called (gate true) -> merging ->
\* verifying -> True or False, a failure leading through the handler to
\* False; True is returned only after the comparison succeeded; and every
\* window a run discovers is eventually skipped or has its job returned.
C27_StateMachine ==
    /\ [][WindowStep]_vars
    /\ \A w \in WindowKeys("month") \cup WindowKeys("year") :
          (run # "none" /\ InQueue(w))
              ~> (~InQueue(w) /\ ~(Running /\ job.key = w))

\* a job of a run has returned False after a failed comparison while
\* another window of the run still waits
C27_Witness ==
    /\ run # "none"
    /\ Returned /\ job.result = "False"
    /\ job.failedAt = "compare"
    /\ queue # <<>>

(* C28 *)
\* one step of a run taken in turn
SequentialStep ==
    /\ Running =>
          /\ job'.key = job.key
          /\ queue' = queue
          /\ yearsLeft' = yearsLeft
          /\ run' = run
    /\ (job'.pc = "read" /\ job.pc # "read") =>
          /\ job.pc \in {"idle", "done"}
          /\ job.pc = "done" =>
                /\ job.result \in {"True", "False"}
                /\ SeqLess(job.key, job'.key)
                /\ output_file(job.key) # output_file(job'.key)
    /\ (Running /\ Touched(Target)) => job'.key = job.key

\* C28: in a run the windows wait in ascending order of their keys, behind
\* the window being processed, and the year directories in ascending order;
\* while a job is between its call and its return no other window is taken
\* up, and the next job is called only after the one before returned True
\* or False, for a later window and so for another output path.
C28_Sequential ==
    /\ [](run # "none" =>
            /\ \A i, j \in 1..Len(queue) :
                  i < j => SeqLess(queue[i].key, queue[j].key)
            /\ \A i, j \in 1..Len(yearsLeft) :
                  i < j => SeqLess(yearsLeft[i], yearsLeft[j])
            /\ job.pc # "idle" =>
                  \A k \in 1..Len(queue) : SeqLess(job.key, queue[k].key))
    /\ [][SequentialStep]_vars

\* the job of the second window of a year runs, the first window's job
\* having committed its target
C28_Witness ==
    /\ run = "month"
    /\ Running
    /\ job.key = <<2020, 12>>
    /\ <<2020, 1>> \in DOMAIN disk
    /\ <<2020, 1>> \notin DOMAIN job.pre \/ job.pre[<<2020, 1>>] = disk[<<2020, 1>>]

(* C29 *)
\* the root each script is for
OwnRoot(script) == IF script = "merge_kr1d" THEN "KR-1d" ELSE "KR-1m"

\* what a job of the window leaves of the root d when nothing else runs
AloneJob(d, key, files, by) ==
    LET fs == sorted(files)
        c  == drop_duplicates(concat([k \in 1..Len(fs) |-> d[fs[k]]]))
    IN  IF SortRaises(c, by) THEN d
        ELSE [n \in (DOMAIN d \cup {output_file(key)}) \ files |->
                 IF n = output_file(key) THEN sort_values(c, by) ELSE d[n]]

RECURSIVE AloneWindows(_, _, _, _)
AloneWindows(d, q, by, now) ==
    IF q = <<>> THEN d
    ELSE AloneWindows(
             IF is_safe_to_merge(Head(q).key, days_wait, now)
             THEN AloneJob(d, Head(q).key, Head(q).files, by) ELSE d,
             Tail(q), by, now)

RECURSIVE AloneYears(_, _, _, _)
AloneYears(d, ys, by, now) ==
    IF ys = <<>> THEN d
    ELSE AloneYears(
             AloneWindows(d, items(get_monthly_groups(d, Head(ys)[1])), by, now),
             Tail(ys), by, now)

\* the root d after a run of the month tier that ran alone
Alone(d, by, now) == AloneYears(d, year_dirs(d), by, now)

\* C29: a script reads, writes and removes files below its own root only,
\* and when its main() has returned, whatever the other script did in
\* between, its root is as a run of it alone would have left it.
C29_Independent ==
    \A script \in DOMAIN call :
        /\ \A f \in call[script].touched : f[1] = OwnRoot(script)
        /\ call[script].pc = "done" =>
              Under(disk, OwnRoot(script)) =
                  Alone(Under(call[script].pre, OwnRoot(script)),
                        sort_key(script), today)

\* both scripts are between the write of a candidate and its verification,
\* each below its own root
C29_Witness ==
    /\ DOMAIN call = Scripts
    /\ \A script \in Scripts :
          /\ call[script].pc = "verify"
          /\ Abs(OwnRoot(script), output_file(call[script].key)) \in DOMAIN disk

(* C30 *)
\* the raw rows of the call, deduplicated
RawRows == DedupRows(concat(txt_dfs(call.txts)).rows)

\* the rows of the archive of the call, deduplicated
ArchiveRows == DedupRows(call.archive.rows)

\* the pairs of a raw row and an archive row with the same SortKey
JoinedPairs ==
    {q \in (1..Len(RawRows)) \X (1..Len(ArchiveRows)) :
        \A c \in Range(sort_cols) : RawRows[q[1]][c] = ArchiveRows[q[2]][c]}

\* the value columns of the raw rows
RawValueCols == {c \in Range(ValCols) : c \notin Range(sort_cols)}

\* the call compares an archive that is there, has the columns of the raw
\* rows, with at least one raw file that was read
Comparable ==
    /\ call.archive.exists
    /\ txt_dfs(call.txts) # <<>>
    /\ Range(call.archive.cols) = Range(ValCols)

\* C30 as stated: validate_year reports success exactly when the join has as
\* many rows as the raw set and every value column is equal on every joined
\* row.
C30_ValidatorAsStated ==
    (call.pc = "returned" /\ Comparable) =>
        ( call.ret.ret <=>
            /\ Cardinality(JoinedPairs) = Len(RawRows)
            /\ \A q \in JoinedPairs : \A c \in RawValueCols :
                  RawRows[q[1]][c] = ArchiveRows[q[2]][c] )

\* the pair differs in the column: by more than the tolerance of isclose in
\* a float column, at all in another column
Differs(q, c) ==
    IF is_float(c)
    THEN fabs(RawRows[q[1]][c] - ArchiveRows[q[2]][c])
             > (1000 + fabs(ArchiveRows[q[2]][c])) \div 100000
    ELSE RawRows[q[1]][c] # ArchiveRows[q[2]][c]

\* C30 amended: validate_year reports success exactly when the archive is
\* there with the columns of the raw rows, there is a raw file, the join has
\* as many rows as the raw set and on every joined row every value column
\* is equal, a float column within the tolerance of isclose; when the join
\* has another number of rows than the raw set the row count is reported
\* and nothing else; otherwise the mismatching rows are counted for every
\* column, and their total.
C30_Validator ==
    call.pc = "returned" =>
        /\ call.ret.ret <=>
              /\ Comparable
              /\ Cardinality(JoinedPairs) = Len(RawRows)
              /\ \A q \in JoinedPairs : \A c \in RawValueCols : ~Differs(q, c)
        /\ Comparable =>
              IF Cardinality(JoinedPairs) # Len(RawRows)
              THEN call.ret.rowcount /\ ~call.ret.ret /\ call.ret.total = 0
              ELSE /\ ~call.ret.rowcount
                   /\ \A c \in RawValueCols :
                         call.ret.counts[c] =
                             Cardinality({q \in JoinedPairs : Differs(q, c)})
                   /\ call.ret.total =
                         Cardinality({x \in JoinedPairs \X RawValueCols :
                                         Differs(x[1], x[2])})

\* success is reported for an archive whose price is not the raw price
C30_Witness ==
    /\ call.pc = "returned"
    /\ call.ret.ret
    /\ \E q \in JoinedPairs :
          RawRows[q[1]]["price"] # ArchiveRows[q[2]]["price"]

(* C31 *)
\* C31: the list fetch_minute_symbol returns has at most one entry per
\* time, for each time the first entry in page order, and is sorted by time
\* ascending, on every return path.
C31_MinuteDedup ==
    (call.pc = "returned") =>
        /\ \A i, j \in 1..Len(call.ret) :
              i < j => call.ret[i].time < call.ret[j].time
        /\ \A i \in 1..Len(call.ret) : \E k \in 1..Len(call.all_results) :
              /\ call.all_results[k] = call.ret[i]
              /\ \A j \in 1..(k - 1) :
                    call.all_results[j].time # call.ret[i].time

(* C32 *)
NamedYear(f) ==
    /\ Len(f) = 4 + Len(Parquet)
    /\ \A i \in 1..4 : IsDigit(f[i])
    /\ SubSeq(f, 5, Len(f)) = Parquet

\* C32: a target the month tier wrote is in the group of its year that the
\* year tier catalog returns; the target of a group is in no group of its
\* own tier's catalog; a file named YYYY.parquet is in no group of either
\* catalog; and a file named YYYY-MM-DD.parquet is in no group of the year
\* tier catalog, so that no year tier job is given it to merge or delete.
C32_TierChaining ==
    call.pc = "returned" =>
        /\ \A p \in PathsOf(disk) : NamedYear(p[2]) => InNoGroup(call.ret, p)
        /\ call.fn = "get_monthly_groups" =>
              \A k \in DOMAIN call.ret :
                  InNoGroup(call.ret, output_file_str(k))
        /\ call.fn = "get_yearly_groups" =>
              /\ \A t \in call.made :
                    /\ t[1] \in DOMAIN call.ret
                    /\ t \in call.ret[t[1]]
                    /\ t[2] = t[1] \o <<"-">> \o SubSeq(t[2], 6, 7) \o Parquet
              /\ \A k \in DOMAIN call.ret :
                    InNoGroup(call.ret, yearly_output_file_str(k))
              /\ \A p \in PathsOf(disk) :
                    NamedDay(p[2]) => InNoGroup(call.ret, p)

\* the year tier catalog has returned for a root in which the month tier
\* wrote a target into a directory that holds a day shard
C32_Witness ==
    /\ call.pc = "returned"
    /\ call.fn = "get_yearly_groups"
    /\ \E t \in call.made : \E f \in disk[t[1]].files :
          NamedDay(f) /\ t \in call.ret[t[1]]

(* C33 *)
\* the exception handler of the job runs to its return
HandlerStep == job.pc = "except" /\ job'.pc = "done"

\* C33: the exception handler returns False, leaves every file other than
\* the output file of the job as it is, creates and rewrites none, removes
\* the output file only if the path was computed (every shard was read and
\* the merged table built) and the file exists; the output file is none of
\* the input shards of the job.
C33_HandlerStep ==
    HandlerStep =>
        /\ job'.result = "False"
        /\ output_file(job.key) \notin Range(job.files)
        /\ DOMAIN disk' \subseteq DOMAIN disk
        /\ \A f \in DOMAIN disk' : disk'[f] = disk[f]
        /\ \A f \in DOMAIN disk \ DOMAIN disk' :
              /\ f = output_file(job.key)
              /\ job.out
              /\ job.failedAt \notin {"read", "sort"}

C33_RollbackRemovesOnlyTarget == [][C33_HandlerStep]_vars

\* a job has returned False after its handler removed the output file, and
\* its input shards are there
C33_Witness ==
    /\ job.pc = "done"
    /\ job.result = "False"
    /\ job.out
    /\ ~job.rbFailed
    /\ output_file(job.key) \notin DOMAIN disk
    /\ Range(job.files) \subseteq DOMAIN disk

(* C34 *)
\* the calendar year lies in the range of the call
YearInRange(y) == call.start_dt[1] <= y /\ y <= call.end_dt[1]

\* the month of the year lies in the range of the call
MonthInRange(y, m) ==
    /\ YearInRange(y)
    /\ y = call.start_dt[1] => call.start_dt[2] <= m
    /\ y = call.end_dt[1] => m <= call.end_dt[2]

HasYearly(y) == <<0, y>> \in DOMAIN disk \/ <<y>> \in DOMAIN disk

\* the file is one the reader is to read
ToRead(f) ==
    IF Len(f) = 2 /\ f[1] = 0 THEN YearInRange(f[2])
    ELSE IF Len(f) = 1 THEN YearInRange(f[1]) /\ <<0, f[1]>> \notin DOMAIN disk
    ELSE IF Len(f) = 2 THEN MonthInRange(f[1], f[2]) /\ ~HasYearly(f[1])
    ELSE /\ YearInRange(f[1])
         /\ ~HasYearly(f[1])
         /\ <<f[1], f[2]>> \notin DOMAIN disk
         /\ SeqLE(call.start_dt, f) /\ SeqLE(f, call.end_dt)

\* the rows of the files the call returned, in the order read
RECURSIVE RowsRead(_)
RowsRead(fs) ==
    IF fs = <<>> THEN <<>> ELSE disk[Head(fs)].rows \o RowsRead(Tail(fs))

\* C34: get_files_to_read returns, each once, exactly the files of the root
\* that are the yearly file of a year of the range, or the monthly file of
\* a month of the range in a year without yearly file, or a day file dated
\* in [start, end] of a month without monthly file in a year without yearly
\* file; no two returned files cover a common day, and no record is read
\* twice.
C34_OneGranularity ==
    call.pc = "returned" =>
        /\ \A f \in DOMAIN disk : f \in Range(call.ret) <=> ToRead(f)
        /\ Range(call.ret) \subseteq DOMAIN disk
        /\ Cardinality(Range(call.ret)) = Len(call.ret)
        /\ \A f, g \in Range(call.ret) :
              f # g => WindowOf(f) \cap WindowOf(g) = {}
        /\ Cardinality(Range(RowsRead(call.ret))) = Len(RowsRead(call.ret))

\* the call returned a monthly file whose day shard is on disk as well, and
\* a day file of another month
C34_Witness ==
    /\ call.pc = "returned"
    /\ \E f \in Range(call.ret) :
          /\ Len(f) = 2 /\ f[1] # 0
          /\ \E g \in DOMAIN disk : Len(g) = 3 /\ g \in WindowOf(f)
    /\ \E g \in Range(call.ret) : Len(g) = 3

(* C35 *)
\* a step appends to all_data
Appends == call'.all_data # call.all_data

\* the worker that holds the lock is in the body of async with lock
LockHeld == call.lock # 0 /\ call.workers[call.lock].pc = "locked"

\* C35: every symbol of the list is fetched at most once and task_done is
\* called at most once for it, both exactly once when the collection has
\* returned; all_data is appended to only under the lock; and the
\* collection returns, for every symbol list and every concurrency.
C35_WorkerQueue ==
    /\ [](\A i \in 1..Len(call.symbols) :
             /\ call.fetched[i] <= 1
             /\ call.done[i] <= call.fetched[i]
             /\ call.pc = "returned" => call.fetched[i] = 1 /\ call.done[i] = 1)
    /\ [][Appends => LockHeld]_vars
    /\ <>(call.pc = "returned")

\* C35 for the calls with at least one worker
C35_WithWorkers ==
    /\ [](\A i \in 1..Len(call.symbols) :
             /\ call.fetched[i] <= 1
             /\ call.done[i] <= call.fetched[i]
             /\ call.pc = "returned" => call.fetched[i] = 1 /\ call.done[i] = 1)
    /\ [][Appends => LockHeld]_vars
    /\ (call.concurrency >= 1 \/ call.symbols = <<>>) ~> (call.pc = "returned")

(* C36 *)
\* the rows of the archive with the SortKey of the raw row
Matching(r) ==
    {j \in 1..Len(ArchiveRows) :
        \A c \in Range(sort_cols) : ArchiveRows[j][c] = r[c]}

\* the raw row has exactly one row of its SortKey in the archive, and that
\* row is equal to it in every value column
MatchedOnce(r) ==
    /\ call.archive.exists
    /\ Cardinality(Matching(r)) = 1
    /\ \A j \in Matching(r) : \A c \in RawValueCols :
          c \in DOMAIN ArchiveRows[j] /\ ArchiveRows[j][c] = r[c]

ConvertStep == call.fn = "convert_file" /\ call'.n = call.n + 1

\* the shard holds the records of the raw file: its rows in the order of
\* the file, the volume rounded, the price within the tolerance
HoldsRaw(shard) ==
    /\ shard.readable
    /\ shard.cols = <<"symbol", "dt", "price", "volume">>
    /\ Len(shard.rows) = Len(call.raw)
    /\ \A i \in 1..Len(call.raw) :
          /\ shard.rows[i].symbol = call.raw[i].symbol
          /\ shard.rows[i].dt = call.raw[i].time
          /\ isclose(call.raw[i].price, shard.rows[i].price)
          /\ LET d == 10 * shard.rows[i].volume - call.raw[i].volume
             IN  d \in -4..4 \/ (d \in {-5, 5} /\ shard.rows[i].volume % 2 = 0)

\* C37: a call of convert_file on a raw file that can be read returns True;
\* it leaves a shard that holds the records of the raw file as it is; it
\* replaces a missing shard or one that does not hold them by the shard
\* written from the raw file, which holds them; and after a first call
\* every further call on the raw file, readable or not, leaves the shard as
\* the first call left it.
C37_Step ==
    ConvertStep =>
        /\ call.raw # <<>> =>
              /\ call'.ret
              /\ HoldsRaw(disk'[1])
              /\ (disk # <<>> /\ HoldsRaw(disk[1])) => disk' = disk
              /\ (disk = <<>> \/ ~HoldsRaw(disk[1])) =>
                    /\ disk' # disk
                    /\ \A i \in 1..Len(call.raw) :
                          /\ disk'[1].rows[i].price = call.raw[i].price
              /\ call.n > 0 => call'.skipped
        /\ call.n > 0 => disk' = disk

====
